---- MODULE Spec2Model ----
(***************************************************************************)
(* A model of the storage and ingestion core of quadratic-core:            *)
(*   - CellValues, the sparse growable cell store (values/cell_values.rs)  *)
(*   - Formats, the run-length format store       (grid/formats/mod.rs)    *)
(*   - the file ingesters of GridController  (controller/operations/       *)
(*     import.rs)                                                          *)
(* Each component has its own specification (SpecCV, SpecFmt, SpecGuess,   *)
(* SpecImport) over the one list of variables, the others standing idle.   *)
(***************************************************************************)
EXTENDS Integers, Sequences, FiniteSets, TLC

VARIABLES
    cv, last, written,      \* CellValues: the object, the last call, the history
    fmts, pushed,           \* Formats: the object, the updates pushed into it
    block, guessed,         \* header inference: the parsed block, the answer
                            \* (None before the call, Some(answer) after)
    gc, imported,           \* ingestion: the controller, the last call
    tool                    \* convert_grid_to_json: the process

cvVars == <<cv, last, written>>
fmtVars == <<fmts, pushed>>
guessVars == <<block, guessed>>
importVars == <<gc, imported>>
toolVars == <<tool>>
vars == <<cvVars, fmtVars, guessVars, importVars, toolVars>>

(***************************************************************************)
(* Bounds of the model.                                                    *)
(***************************************************************************)
\* coordinates passed to the CellValues operations range over 0..MaxCoord
MaxCoord == 1
\* CellValues::new(w, h) is called with w, h in 0..MaxInit
MaxInit == 1
\* a set that would leave more than MaxCells cells stored is not explored
MaxCells == 2
\* a Formats holds at most MaxSize updates
MaxSize == 5
\* the blocks header inference is asked about: up to MaxBlockWidth columns
\* and MaxBlockHeight rows
MaxBlockWidth == 1
MaxBlockHeight == 4
\* a delimited file is made of up to MaxRuns runs of equal records
MaxRuns == 2
\* a workbook has up to MaxSheets sheets
MaxSheets == 2
\* a columnar file has up to MaxRows rows, in batches of up to MaxBatchSize
MaxRows == 3
MaxBatchSize == 2
\* the chars of a text previewed
MaxText == 5

(***************************************************************************)
(* CellValue: a tagged variant; only the variants the model needs.         *)
(***************************************************************************)
Blank == [tag |-> "Blank", val |-> ""]
Text(s) == [tag |-> "Text", val |-> s]
Number(s) == [tag |-> "Number", val |-> s]
\* a Code value of language Formula
Code(code) == [tag |-> "Code", val |-> code]
\* Date, Time and DateTime values; a date is written "1990-12-21", a time
\* "13:23:00", a date-time is a record of the two
Date(date) == [tag |-> "Date", val |-> date]
Time(time) == [tag |-> "Time", val |-> time]
DateTime(v) == [tag |-> "DateTime", val |-> v.date \o " " \o v.time]

\* Option<T>: None is the empty sequence, Some(v) the one-element sequence
None == <<>>
Some(v) == <<v>>
unwrap_or(opt, default) == IF opt = None THEN default ELSE opt[1]

\* u32::try_from(i64).unwrap_or(0).  The coordinates of the model stay far
\* below u32::MAX, so the upper end of the conversion and the overflow of
\* y + 1 at y = u32::MAX are outside the model.
u32_try_from_or_0(i) == IF i >= 0 THEN i ELSE 0

(***************************************************************************)
(* BTreeMap<u64, CellValue>: a function on a finite set of rows.           *)
(***************************************************************************)
BTreeMap_new == <<>>
btree_get(m, k) == IF k \in DOMAIN m THEN Some(m[k]) ELSE None
btree_insert(m, k, v) == [r \in (DOMAIN m) \cup {k} |-> IF r = k THEN v ELSE m[r]]
btree_remove(m, k) == [r \in (DOMAIN m) \ {k} |-> m[r]]

(***************************************************************************)
(* Rect: inclusive on both ends (crate::Rect).                             *)
(***************************************************************************)
Rect_new(x0, y0, x1, y1) == [min_x |-> x0, min_y |-> y0, max_x |-> x1, max_y |-> y1]
Rect_width(rect) == rect.max_x - rect.min_x + 1
Rect_height(rect) == rect.max_y - rect.min_y + 1
\* the rect's coordinates in the order get_rect walks them: rows outside,
\* columns inside; k counts from 0
Rect_nth(rect, k) ==
    [x |-> rect.min_x + (k % Rect_width(rect)), y |-> rect.min_y + (k \div Rect_width(rect))]

(***************************************************************************)
(* CellValues.  columns[x + 1] is the column of x (sequences start at 1).  *)
(***************************************************************************)
new(w, h) == [columns |-> [i \in 1..w |-> BTreeMap_new], w |-> w, h |-> h]

in_bounds(self, x, y) == x < self.w /\ y < self.h

\* self.columns.get(x).and_then(|col| col.get(&y))
columns_get(self, x, y) ==
    IF x + 1 \in DOMAIN self.columns THEN btree_get(self.columns[x + 1], y) ELSE None

\* a call's result: the object afterwards, how the call ended ("ok", "err"
\* for a returned error, "panic" for a failed assertion) and what it returned
Result(self, outcome, ret) == [self |-> self, outcome |-> outcome, ret |-> ret]

\* get with the filter of get_except_blank
get_filtering_blank(self, x, y) ==
    IF ~in_bounds(self, x, y) THEN Result(self, "panic", None)
    ELSE LET value == columns_get(self, x, y)
         IN  Result(self, "ok", IF value = Some(Blank) THEN None ELSE value)

get(self, x, y) ==
    IF ~in_bounds(self, x, y) THEN Result(self, "panic", None)
    ELSE Result(self, "ok", columns_get(self, x, y))

\* get_except_blank without its assertion
get_except_blank_unchecked(self, x, y) ==
    LET value == columns_get(self, x, y)
    IN  Result(self, "ok", IF value = Some(Blank) THEN None ELSE value)

get_except_blank(self, x, y) ==
    IF ~in_bounds(self, x, y) THEN Result(self, "panic", None)
    ELSE LET value == columns_get(self, x, y)
         IN  Result(self, "ok", IF value = Some(Blank) THEN None ELSE value)

safe_get(self, x, y) ==
    IF ~in_bounds(self, x, y) THEN Result(self, "err", None)
    ELSE LET value == columns_get(self, x, y)
         IN  IF value = None THEN Result(self, "err", None) ELSE Result(self, "ok", value)

get_owned(self, x, y) ==
    IF ~in_bounds(self, x, y) THEN Result(self, "err", None)
    ELSE IF x + 1 \notin DOMAIN self.columns THEN Result(self, "err", None)
    ELSE LET value == btree_get(self.columns[x + 1], y)
         IN  IF value = None THEN Result(self, "err", None) ELSE Result(self, "ok", value)

\* set growing h to y instead of y + 1
set_h_off_by_one(self, x, y, value) ==
    LET h1 == IF y >= self.h THEN y ELSE self.h
        w1 == IF x >= self.w THEN x + 1 ELSE self.w
        columns1 == [i \in 1..w1 |->
                        IF i \in DOMAIN self.columns THEN self.columns[i] ELSE BTreeMap_new]
        columns2 == [columns1 EXCEPT ![x + 1] = btree_insert(@, y, value)]
    IN  Result([columns |-> columns2, w |-> w1, h |-> h1], "ok", None)

\* the loop that pushes a column and adds 1 to w until w = x + 1 is taken
\* in one step: columns.len() = w in every object new makes
set(self, x, y, value) ==
    LET h1 == IF y >= self.h THEN y + 1 ELSE self.h
        w1 == IF x >= self.w THEN x + 1 ELSE self.w
        columns1 == [i \in 1..w1 |->
                        IF i \in DOMAIN self.columns THEN self.columns[i] ELSE BTreeMap_new]
        columns2 == [columns1 EXCEPT ![x + 1] = btree_insert(@, y, value)]
    IN  Result([columns |-> columns2, w |-> w1, h |-> h1], "ok", None)

\* remove shrinking h when it empties the last row's cell
remove_shrinking(self, x, y) ==
    IF ~in_bounds(self, x, y) THEN Result(self, "panic", None)
    ELSE Result([self EXCEPT !.columns[x + 1] = btree_remove(@, y),
                             !.h = IF y + 1 = self.h THEN y ELSE self.h], "ok",
                btree_get(self.columns[x + 1], y))

\* remove returning the value and leaving it stored
remove_keeping(self, x, y) ==
    IF ~in_bounds(self, x, y) THEN Result(self, "panic", None)
    ELSE Result(self, "ok", btree_get(self.columns[x + 1], y))

remove(self, x, y) ==
    IF ~in_bounds(self, x, y) THEN Result(self, "panic", None)
    ELSE Result([self EXCEPT !.columns[x + 1] = btree_remove(@, y)], "ok",
                btree_get(self.columns[x + 1], y))

\* the loop of get_rect from its k-th coordinate on; values is the grid
\* built so far.  A remove that panics ends the call where it stands.
RECURSIVE get_rect_from(_, _, _, _)
get_rect_from(self, rect, k, values) ==
    IF k >= Rect_width(rect) * Rect_height(rect) THEN Result(self, "ok", values)
    ELSE LET at == Rect_nth(rect, k)
             new_x == u32_try_from_or_0(at.x)
             new_y == u32_try_from_or_0(at.y)
             r == remove(self, new_x, new_y)
             y_index == at.y - rect.min_y
             x_index == at.x - rect.min_x
         IN  IF r.outcome = "panic" THEN Result(self, "panic", None)
             ELSE get_rect_from(r.self, rect, k + 1,
                    [values EXCEPT ![y_index + 1][x_index + 1] = unwrap_or(r.ret, Blank)])

get_rect(self, rect) ==
    get_rect_from(self, rect, 0,
        [j \in 1..Rect_height(rect) |-> [i \in 1..Rect_width(rect) |-> Blank]])

(***************************************************************************)
(* RunLengthEncoding<T>: a sequence of runs <<value, length>>.  push_n     *)
(* extends the trailing run when it holds the same value.                  *)
(***************************************************************************)
RunLengthEncoding_new == <<>>
rle_push_n(rle, value, len) ==
    IF len = 0 THEN rle
    ELSE IF rle # <<>> /\ rle[Len(rle)][1] = value
         THEN [rle EXCEPT ![Len(rle)] = <<value, @[2] + len>>]
         ELSE Append(rle, <<value, len>>)
rle_push(rle, value) == rle_push_n(rle, value, 1)
RECURSIVE rle_size(_)
rle_size(rle) == IF rle = <<>> THEN 0 ELSE rle[1][2] + rle_size(Tail(rle))
\* the value at index (from 0), None past the end
RECURSIVE rle_get_at(_, _)
rle_get_at(rle, index) ==
    IF rle = <<>> THEN None
    ELSE IF index < rle[1][2] THEN Some(rle[1][1])
    ELSE rle_get_at(Tail(rle), index - rle[1][2])

(***************************************************************************)
(* Formats: a RunLengthEncoding<FormatUpdate> (Deref / DerefMut).          *)
(***************************************************************************)
Formats_new == [formats |-> RunLengthEncoding_new]
Formats_default == [formats |-> RunLengthEncoding_new]
Formats_push(self, update) == [self EXCEPT !.formats = rle_push(@, update)]
Formats_push_n(self, update, count) == [self EXCEPT !.formats = rle_push_n(@, update, count)]
Formats_size(self) == rle_size(self.formats)
Formats_get_at(self, index) == rle_get_at(self.formats, index)

\* repeat forgetting its count
Formats_repeat_once(update, count) == Formats_push_n(Formats_default, update, 1)

Formats_repeat(update, count) == Formats_push_n(Formats_default, update, count)

(***************************************************************************)
(* Result<T, E>: Ok(value) or Err(error); the error is the kind of the     *)
(* message, without the file name and line number the code formats in.     *)
(***************************************************************************)
Ok(value) == [ok |-> TRUE, value |-> value, error |-> ""]
Err(error) == [ok |-> FALSE, value |-> <<>>, error |-> error]

(***************************************************************************)
(* Array, the dense block: w columns by h rows, both at least 1.  Its      *)
(* rows are held as runs <<n, row>>, n equal rows one after the other, so  *)
(* that a block of tens of thousands of rows stays small.                  *)
(***************************************************************************)
ArraySize_new_or_err(w, h) ==
    IF w = 0 \/ h = 0 THEN Err("array size") ELSE Ok([w |-> w, h |-> h])
Array_new_empty(size) ==
    [w |-> size.w, h |-> size.h, rows |-> << <<size.h, [i \in 1..size.w |-> Blank]>> >>]
Array_height(array) == array.h
\* the first k rows of a sequence of runs, and the rows after them
RECURSIVE rows_take(_, _)
rows_take(rows, k) ==
    IF k = 0 \/ rows = <<>> THEN <<>>
    ELSE IF rows[1][1] <= k THEN <<rows[1]>> \o rows_take(Tail(rows), k - rows[1][1])
    ELSE << <<k, rows[1][2]>> >>
RECURSIVE rows_drop(_, _)
rows_drop(rows, k) ==
    IF k = 0 \/ rows = <<>> THEN rows
    ELSE IF rows[1][1] <= k THEN rows_drop(Tail(rows), k - rows[1][1])
    ELSE << <<rows[1][1] - k, rows[1][2]>> >> \o Tail(rows)
Array_get_row(array, row) ==
    IF row < array.h THEN Some(rows_drop(array.rows, row)[1][2]) ELSE None
\* get_row(row).unwrap_or_default(): the row, or an empty one past the end
Array_get_row_or_default(array, row) == unwrap_or(Array_get_row(array, row), <<>>)
\* rows y .. y + n - 1 replaced by n copies of row
Array_set_rows(array, y, n, row) ==
    [array EXCEPT !.rows = rows_take(@, y) \o << <<n, row>> >> \o rows_drop(@, y + n)]
\* Array::set: an error outside the block
Array_set(array, x, y, value) ==
    IF x >= array.w \/ y >= array.h THEN Err("array set")
    ELSE Ok(Array_set_rows(array, y, 1, [Array_get_row(array, y)[1] EXCEPT ![x + 1] = value]))
\* CellValue::type_id: the variant's tag
type_id(c) == c.tag

types(cell_values, row) ==
    LET r == Array_get_row_or_default(cell_values, row)
    IN  [i \in DOMAIN r |-> type_id(r[i])]

\* the inference without its test of the height
guess_csv_first_row_is_header_any_height(cell_values) ==
    LET row_0 == types(cell_values, 0)
        row_1 == types(cell_values, 1)
        row_2 == types(cell_values, 2)
    IN  row_0 # row_1 /\ row_1 = row_2

guess_csv_first_row_is_header(cell_values) ==
    IF Array_height(cell_values) < 3 THEN FALSE
    ELSE LET row_0 == types(cell_values, 0)
             row_1 == types(cell_values, 1)
             row_2 == types(cell_values, 2)
             row_0_is_different_from_row_1 == row_0 # row_1
             row_1_is_same_as_row_2 == row_1 = row_2
         IN  row_0_is_different_from_row_1 /\ row_1_is_same_as_row_2

(***************************************************************************)
(* The ingesters of GridController.  self is the controller: the names of  *)
(* the sheets of its grid.  A call's outcome is the controller afterwards, *)
(* the Result it returned and the events it caused on the way, in order:   *)
(* the progress notifications sent to the client and the sheets created.   *)
(* (jsImportProgress is compiled in for wasm and for tests; the model is   *)
(* of such a build.)                                                       *)
(***************************************************************************)
IMPORT_LINES_PER_OPERATION == 10000

Pos(x, y) == [x |-> x, y |-> y]
SheetPos(pos, sheet_id) == [x |-> pos.x, y |-> pos.y, sheet_id |-> sheet_id]
sheet_names(self) == self.sheet_names
Outcome(self, ret, events) == [self |-> self, ret |-> ret, events |-> events]

jsImportProgress(current, total, x, y, width, height) ==
    [event |-> "jsImportProgress", current |-> current, total |-> total,
     x |-> x, y |-> y, width |-> width, height |-> height]

Operation_AddDataTable(sheet_pos, data_table) ==
    [op |-> "AddDataTable", sheet_pos |-> sheet_pos, data_table |-> data_table]
Operation_AddSheetSchema(sheet) == [op |-> "AddSheetSchema", schema |-> sheet]
Operation_ComputeCode(sheet_pos) == [op |-> "ComputeCode", sheet_pos |-> sheet_pos]

\* DataTable::from((import, value, context)) and apply_first_row_as_header
DataTable_from(value) == [kind |-> "Import", value |-> value, header_is_first_row |-> FALSE]
apply_first_row_as_header(data_table) == [data_table EXCEPT !.header_is_first_row = TRUE]

(***************************************************************************)
(* Delimited text.  A file is                                              *)
(*   utf8     whether its bytes are valid UTF-8                            *)
(*   utf16    what read_utf16 makes of its bytes: None, or Some(records    *)
(*            of the recovered text)                                       *)
(*   records  what the csv reader makes of its bytes, with the delimiter   *)
(*            given or sniffed: runs <<n, record>> of n equal records      *)
(* A record is a StringRecord or the error of one that is not UTF-8.       *)
(***************************************************************************)
Record(fields) == [ok |-> TRUE, fields |-> fields]
Utf8Error == [ok |-> FALSE, fields |-> <<>>]

\* reader(false).records().count(): an unequal length is an item too
RECURSIVE records_count(_)
records_count(records) ==
    IF records = <<>> THEN 0 ELSE records[1][1] + records_count(Tail(records))

\* the width taken from the first record instead of the last
records_first_len(records) ==
    IF records = <<>> THEN 0
    ELSE LET first_record == records[1][2]
         IN  IF first_record.ok THEN Len(first_record.fields) ELSE 0

\* reader(true).records().last().iter().flatten().next().map(|s| s.len()).unwrap_or(0)
records_last_len(records) ==
    IF records = <<>> THEN 0
    ELSE LET last_record == records[Len(records)][2]
         IN  IF last_record.ok THEN Len(last_record.fields) ELSE 0

\* string_to_cell_value for the fields of the model: a numeral is a Number,
\* anything else a Text; neither carries a format update
string_to_cell_value(value) == IF value \in {"1", "2"} THEN Number(value) ELSE Text(value)

read_utf16(file) == file.utf16
\* utf.as_bytes().to_vec(): the recovered text, UTF-8 encoded
as_bytes(utf) == [utf8 |-> TRUE, utf16 |-> None, records |-> utf]

\* the notifications of the rows y0 + 1 .. y1: one at every multiple of
\* IMPORT_LINES_PER_OPERATION among them
import_csv_progress(y0, y1, insert_at, width, height) ==
    [i \in 1..((y1 \div IMPORT_LINES_PER_OPERATION) - (y0 \div IMPORT_LINES_PER_OPERATION)) |->
        jsImportProgress(((y0 \div IMPORT_LINES_PER_OPERATION) + i) * IMPORT_LINES_PER_OPERATION,
                         height, insert_at.x, insert_at.y, width, height)]

\* the inner loop with the fields past the width left out
import_csv_set_record_dropping_extra(cell_values, y, n, record) ==
    IF y + n > cell_values.h THEN Err("array set")
    ELSE LET old == Array_get_row(cell_values, y)[1]
             row == [i \in 1..cell_values.w |->
                        IF i <= Len(record.fields) THEN string_to_cell_value(record.fields[i])
                        ELSE old[i]]
         IN  Ok(Array_set_rows(cell_values, y, n, row))

\* the inner loop for the n equal records at rows y .. y + n - 1: every
\* field is set in its row; a field past the width fails the call
import_csv_set_record(cell_values, y, n, record) ==
    IF Len(record.fields) > cell_values.w \/ y + n > cell_values.h THEN Err("array set")
    ELSE LET old == Array_get_row(cell_values, y)[1]
             row == [i \in 1..cell_values.w |->
                        IF i <= Len(record.fields) THEN string_to_cell_value(record.fields[i])
                        ELSE old[i]]
         IN  Ok(Array_set_rows(cell_values, y, n, row))

\* the loop over the records from run k on; y rows are parsed so far
RECURSIVE import_csv_records(_, _, _, _, _, _)
import_csv_records(records, k, y, cell_values, events, insert_at) ==
    IF k > Len(records) THEN [error |-> None, cell_values |-> cell_values, events |-> events]
    ELSE LET n == records[k][1]
             record == records[k][2]
             r == import_csv_set_record(cell_values, y, n, record)
         IN  IF ~record.ok
                THEN [error |-> Some("line"), cell_values |-> cell_values, events |-> events]
             ELSE IF ~r.ok
                THEN [error |-> Some(r.error), cell_values |-> cell_values, events |-> events]
             ELSE import_csv_records(records, k + 1, y + n, r.value,
                    events \o import_csv_progress(y, y + n, insert_at, cell_values.w, cell_values.h),
                    insert_at)

\* the list with one Operation for every batch of rows begun
import_csv_data_table_per_batch(self, sheet_pos, cell_values, header_is_first_row) ==
    [i \in 1..((cell_values.h + IMPORT_LINES_PER_OPERATION - 1) \div IMPORT_LINES_PER_OPERATION) |->
        Operation_AddDataTable(sheet_pos, DataTable_from(cell_values))]

\* the list with the header inferred whatever the caller's flag
import_csv_data_table_always_guess(self, sheet_pos, cell_values, header_is_first_row) ==
    LET data_table == DataTable_from(cell_values)
    IN  << Operation_AddDataTable(sheet_pos,
              IF guess_csv_first_row_is_header(cell_values)
              THEN apply_first_row_as_header(data_table)
              ELSE data_table) >>

\* the end of import_csv_operations: the data table and the list returned
import_csv_data_table(self, sheet_pos, cell_values, header_is_first_row) ==
    LET apply_first_row ==
            IF header_is_first_row = Some(TRUE) THEN TRUE
            ELSE IF header_is_first_row = Some(FALSE) THEN FALSE
            ELSE guess_csv_first_row_is_header(cell_values)
        data_table == DataTable_from(cell_values)
    IN  << Operation_AddDataTable(sheet_pos,
              IF apply_first_row THEN apply_first_row_as_header(data_table)
              ELSE data_table) >>

RECURSIVE import_csv_operations(_, _, _, _, _)
import_csv_operations(self, sheet_id, file, insert_at, header_is_first_row) ==
    IF ~file.utf8 /\ read_utf16(file) # None
    THEN import_csv_operations(self, sheet_id, as_bytes(read_utf16(file)[1]), insert_at,
                               header_is_first_row)
    ELSE LET height == records_count(file.records)
             width == records_last_len(file.records)
             array_size == ArraySize_new_or_err(width, height)
             parsed == import_csv_records(file.records, 1, 0, Array_new_empty(array_size.value),
                                          <<>>, insert_at)
         IN  IF width = 0 THEN Outcome(self, Err("empty files cannot be processed"), <<>>)
             ELSE IF ~array_size.ok THEN Outcome(self, Err(array_size.error), <<>>)
             ELSE IF parsed.error # None THEN Outcome(self, Err(parsed.error[1]), parsed.events)
             ELSE Outcome(self,
                          Ok(import_csv_data_table(self, SheetPos(insert_at, sheet_id),
                                                   parsed.cell_values, header_is_first_row)),
                          parsed.events)

(***************************************************************************)
(* Bytes and text.  A byte is a number below 256, a char a Unicode scalar  *)
(* value, a String a sequence of chars.  The csv reader is outside the     *)
(* source; for texts without quotes and carriage returns it yields one     *)
(* record per non-empty line, its fields the pieces between delimiters.    *)
(***************************************************************************)
\* char::len_utf8
len_utf8(c) == IF c < 128 THEN 1 ELSE IF c < 2048 THEN 2 ELSE IF c < 65536 THEN 3 ELSE 4

\* the UTF-8 encoding of one char
char_bytes(c) ==
    IF c < 128 THEN << c >>
    ELSE IF c < 2048 THEN << 192 + (c \div 64), 128 + (c % 64) >>
    ELSE IF c < 65536 THEN << 224 + (c \div 4096), 128 + ((c \div 64) % 64), 128 + (c % 64) >>
    ELSE << 240 + (c \div 262144), 128 + ((c \div 4096) % 64), 128 + ((c \div 64) % 64),
            128 + (c % 64) >>

\* String::as_bytes: the UTF-8 encoding of a String
RECURSIVE str_as_bytes(_)
str_as_bytes(str) == IF str = <<>> THEN <<>> ELSE char_bytes(str[1]) \o str_as_bytes(Tail(str))

is_continuation(b) == b >= 128 /\ b <= 191
is_surrogate(c) == c >= 55296 /\ c <= 57343

\* std::str::from_utf8 as an Option: the String of bytes that are valid
\* UTF-8 (no overlong form, no surrogate, nothing above U+10FFFF)
RECURSIVE from_utf8(_)
from_utf8(bytes) ==
    IF bytes = <<>> THEN Some(<<>>)
    ELSE LET b == bytes[1]
             n == IF b < 128 THEN 1
                  ELSE IF b >= 192 /\ b <= 223 THEN 2
                  ELSE IF b >= 224 /\ b <= 239 THEN 3
                  ELSE IF b >= 240 /\ b <= 247 THEN 4
                  ELSE 0
             c == IF n = 1 THEN b
                  ELSE IF n = 2 THEN (b - 192) * 64 + (bytes[2] - 128)
                  ELSE IF n = 3 THEN (b - 224) * 4096 + (bytes[2] - 128) * 64 + (bytes[3] - 128)
                  ELSE (b - 240) * 262144 + (bytes[2] - 128) * 4096 + (bytes[3] - 128) * 64
                       + (bytes[4] - 128)
             rest == from_utf8(SubSeq(bytes, n + 1, Len(bytes)))
         IN  IF n = 0 \/ Len(bytes) < n THEN None
             ELSE IF \E i \in 2..n : ~is_continuation(bytes[i]) THEN None
             ELSE IF len_utf8(c) # n \/ is_surrogate(c) \/ c > 1114111 THEN None
             ELSE IF rest = None THEN None
             ELSE Some(<< c >> \o rest[1])

\* u16::from_ne_bytes on a little-endian target (wasm32 and the hosts the
\* tests run on)
from_ne_bytes(b0, b1) == b0 + 256 * b1

\* String::from_utf16 as an Option: surrogates must come in pairs
RECURSIVE String_from_utf16(_)
String_from_utf16(v) ==
    IF v = <<>> THEN Some(<<>>)
    ELSE IF ~is_surrogate(v[1])
        THEN LET rest == String_from_utf16(Tail(v))
             IN  IF rest = None THEN None ELSE Some(<< v[1] >> \o rest[1])
    ELSE IF v[1] <= 56319 /\ Len(v) >= 2 /\ v[2] >= 56320 /\ v[2] <= 57343
        THEN LET rest == String_from_utf16(SubSeq(v, 3, Len(v)))
             IN  IF rest = None THEN None
                 ELSE Some(<< 65536 + (v[1] - 55296) * 1024 + (v[2] - 56320) >> \o rest[1])
    ELSE None

\* read_utf16 keeping every char of the decoded string
read_utf16_bytes_unfiltered(bytes) ==
    IF bytes = <<>> /\ Len(bytes) % 2 = 0 THEN None
    ELSE LET utf16vec == [i \in 1..(Len(bytes) \div 2) |->
                            from_ne_bytes(bytes[2 * i - 1], bytes[2 * i])]
         IN  String_from_utf16(utf16vec)

\* read_utf16 of lines 498-521, on the bytes
read_utf16_bytes(bytes) ==
    IF bytes = <<>> /\ Len(bytes) % 2 = 0 THEN None
    ELSE LET utf16vec == [i \in 1..(Len(bytes) \div 2) |->
                            from_ne_bytes(bytes[2 * i - 1], bytes[2 * i])]
             str == String_from_utf16(utf16vec)
         IN  IF str = None THEN None
             ELSE Some(SelectSeq(str[1], LAMBDA c : len_utf8(c) <= 2))

\* the pieces of bytes between the bytes equal to sep
RECURSIVE split(_, _)
split(bytes, sep) ==
    IF \A i \in DOMAIN bytes : bytes[i] # sep THEN << bytes >>
    ELSE LET i == CHOOSE i \in DOMAIN bytes :
                    bytes[i] = sep /\ \A j \in 1..(i - 1) : bytes[j] # sep
         IN  << SubSeq(bytes, 1, i - 1) >> \o split(SubSeq(bytes, i + 1, Len(bytes)), sep)

\* reader.records() of a flexible reader without headers: a record per
\* non-empty line, an error for a line that is not UTF-8
csv_records(file, delimiter) ==
    LET lines == SelectSeq(split(file, 10), LAMBDA line : line # <<>>)
    IN  [i \in DOMAIN lines |->
            LET fields == split(lines[i], delimiter)
            IN  IF \E j \in DOMAIN fields : from_utf8(fields[j]) = None THEN Utf8Error
                ELSE Record([j \in DOMAIN fields |-> from_utf8(fields[j])[1]])]

\* the match of lines 59-67 (and of lines 113-128): Some(utf) when the
\* bytes are not UTF-8 and read_utf16 recovers a text of them, and the call
\* calls itself with the bytes of utf; None when it goes on with its bytes
utf16_recovery(file) ==
    IF from_utf8(file) = None THEN read_utf16_bytes(file) ELSE None

\* lines 69-97 with the delimiter given: the records of the reader, up to
\* max_rows of them
get_csv_preview_records(file, max_rows, delimiter) ==
    LET records == csv_records(file, delimiter[1])
        n == IF Len(records) < max_rows THEN Len(records) ELSE max_rows
    IN  IF \E i \in 1..n : ~records[i].ok THEN Err("line")
        ELSE Ok([i \in 1..n |-> records[i].fields])

\* get_csv_preview returning an error when the bytes are neither UTF-8 nor
\* recovered by read_utf16
RECURSIVE get_csv_preview_failing_recovery(_, _, _)
get_csv_preview_failing_recovery(file, max_rows, delimiter) ==
    IF utf16_recovery(file) # None
    THEN get_csv_preview_failing_recovery(str_as_bytes(utf16_recovery(file)[1]),
                                          max_rows, delimiter)
    ELSE IF from_utf8(file) = None THEN Err("encoding")
    ELSE get_csv_preview_records(file, max_rows, delimiter)

\* get_csv_preview with the delimiter given
RECURSIVE get_csv_preview(_, _, _)
get_csv_preview(file, max_rows, delimiter) ==
    IF utf16_recovery(file) # None
    THEN get_csv_preview(str_as_bytes(utf16_recovery(file)[1]), max_rows, delimiter)
    ELSE get_csv_preview_records(file, max_rows, delimiter)

(***************************************************************************)
(* Workbooks.  A file is                                                   *)
(*   readable  whether ExcelReader::new opens it                           *)
(*   sheets    its worksheets in order: the name, and what worksheet_range *)
(*             and worksheet_formula return for it, a Range or an error    *)
(* A Range is its start <<row, col>> (None when it is empty) and its rows. *)
(***************************************************************************)
ExcelData_Empty == [type |-> "Empty", value |-> ""]
ExcelData_String(value) == [type |-> "String", value |-> value]
ExcelData_Error == [type |-> "Error", value |-> ""]
\* ExcelData::DateTime(value): is_datetime is value.is_datetime() (false for
\* a duration), as_datetime is value.as_datetime(), None or Some of a
\* NaiveDateTime [date, time], value is value.to_string()
ExcelData_DateTime(value, is_datetime, as_datetime) ==
    [type |-> "DateTime", value |-> value, is_datetime |-> is_datetime,
     as_datetime |-> as_datetime]
NaiveDateTime(date, time) == [date |-> date, time |-> time]
Range(start, rows) == [start |-> start, rows |-> rows]

xlsx_range_to_pos(start) == Pos(start[2] + 1, start[1] + 1)

\* SheetId::new(): a fresh id, here the number of the sheet within the
\* call; the sheets of the grid have the ids below 1
SheetId_new(k) == k
\* key_between(Some(order), None): a key above order, here the next number
key_between(order) == order + 1
Sheet_new(id, name, order) == [id |-> id, name |-> name, order |-> order, cells |-> <<>>]
Sheet_new_event(name) == [event |-> "Sheet::new", name |-> name]
set_cell_value(sheet, pos, cell_value) ==
    [sheet EXCEPT !.cells = [p \in (DOMAIN @) \cup {pos} |-> IF p = pos THEN cell_value ELSE @[p]]]

\* the existing-name test of every sheet name of the workbook but the first
name_collision_first_only(existing_sheet_names, sheets) ==
    sheets # <<>> /\ sheets[1].name \in existing_sheet_names

\* the loop of lines 254-258: some sheet name of the workbook exists
name_collision(existing_sheet_names, sheets) ==
    \E i \in DOMAIN sheets : sheets[i].name \in existing_sheet_names

\* the try_fold of total_rows from sheet k on
RECURSIVE import_excel_total_rows(_, _, _)
import_excel_total_rows(sheets, k, acc) ==
    IF k > Len(sheets) THEN Ok(acc)
    ELSE IF ~sheets[k].range.ok THEN Err("worksheet_range")
    ELSE import_excel_total_rows(sheets, k + 1, acc + 2 * Len(sheets[k].range.value.rows))

\* the zero time and the zero date a decoded date-time is tested against
zero_time == "00:00:00"
zero_date == "1899-12-31"

\* the value of a date-time cell with the date tested before the time
excel_cell_value_date_first(cell) ==
    IF cell.type = "DateTime"
    THEN IF cell.is_datetime
         THEN IF cell.as_datetime = None THEN Blank
              ELSE LET v == cell.as_datetime[1]
                   IN  IF v.date = zero_date THEN Time(v.time)
                       ELSE IF v.time = zero_time THEN Date(v.date)
                       ELSE DateTime(v)
         ELSE Text(cell.value)
    ELSE Text(cell.value)

\* the match of lines 288-328 for the cells that are stored: the value a
\* cell is stored as
excel_cell_value(cell) ==
    IF cell.type = "DateTime"
    THEN IF cell.is_datetime
         THEN IF cell.as_datetime = None THEN Blank
              ELSE LET v == cell.as_datetime[1]
                   IN  IF v.time = zero_time THEN Date(v.date)
                       ELSE IF v.date = zero_date THEN Time(v.time)
                       ELSE DateTime(v)
         ELSE Text(cell.value)
    ELSE Text(cell.value)

\* the cells of a value row with an empty or error cell stored as Blank
RECURSIVE import_excel_value_cells_blank_for_skipped(_, _, _, _, _)
import_excel_value_cells_blank_for_skipped(sheet, insert_at, y, row, x) ==
    IF x >= Len(row) THEN sheet
    ELSE LET cell == row[x + 1]
         IN  import_excel_value_cells_blank_for_skipped(
                set_cell_value(sheet, Pos(insert_at.x + x, insert_at.y + y),
                               IF cell.type \in {"Empty", "Error"} THEN Blank
                               ELSE excel_cell_value(cell)),
                insert_at, y, row, x + 1)

\* the cells of a value row from cell x on
RECURSIVE import_excel_value_cells(_, _, _, _, _)
import_excel_value_cells(sheet, insert_at, y, row, x) ==
    IF x >= Len(row) THEN sheet
    ELSE LET cell == row[x + 1]
         IN  IF cell.type \in {"Empty", "Error"}
                THEN import_excel_value_cells(sheet, insert_at, y, row, x + 1)
             ELSE import_excel_value_cells(
                    set_cell_value(sheet, Pos(insert_at.x + x, insert_at.y + y),
                                   excel_cell_value(cell)),
                    insert_at, y, row, x + 1)

\* the rows y0 .. y1 - 1 of the value range, in order (the halves of the
\* rows one after the other, the state of the call read before each half,
\* so that a long range is walked without deep nesting; no row sets error).  st is the state of the call: the list ops, the events, the two
\* row counters, the order key, and for the sheet in work the sheet and its
\* formula_compute_ops.  Here with a notification for every row
RECURSIVE import_excel_values_every_row(_, _, _, _, _, _)
import_excel_values_every_row(st, rows, insert_at, y0, y1, total_rows) ==
    IF st.error # None \/ y0 >= y1 THEN st
    ELSE IF y1 = y0 + 1
        THEN LET row == rows[y0 + 1]
             IN  [st EXCEPT !.sheet = import_excel_value_cells(@, insert_at, y0, row, 0),
                            !.events = Append(@, jsImportProgress(
                                            st.current_y_values + st.current_y_formula,
                                            total_rows, 0, 1, Len(row), total_rows)),
                            !.current_y_values = @ + 1]
    ELSE LET mid == (y0 + y1) \div 2
         IN  import_excel_values_every_row(
                import_excel_values_every_row(st, rows, insert_at, y0, mid, total_rows),
                rows, insert_at, mid, y1, total_rows)

\* the rows y0 .. y1 - 1 of the value range, in order
RECURSIVE import_excel_values(_, _, _, _, _, _)
import_excel_values(st, rows, insert_at, y0, y1, total_rows) ==
    IF st.error # None \/ y0 >= y1 THEN st
    ELSE IF y1 = y0 + 1
        THEN LET row == rows[y0 + 1]
                 progress ==
                    IF st.current_y_values % IMPORT_LINES_PER_OPERATION = 0
                    THEN << jsImportProgress(st.current_y_values + st.current_y_formula,
                                             total_rows, 0, 1, Len(row), total_rows) >>
                    ELSE <<>>
             IN  [st EXCEPT !.sheet = import_excel_value_cells(@, insert_at, y0, row, 0),
                            !.events = @ \o progress,
                            !.current_y_values = @ + 1]
    ELSE LET mid == (y0 + y1) \div 2
         IN  import_excel_values(
                import_excel_values(st, rows, insert_at, y0, mid, total_rows),
                rows, insert_at, mid, y1, total_rows)

\* the cells of a formula row placed as Code values, no Operation pushed
RECURSIVE import_excel_formula_cells_placed_only(_, _, _, _, _)
import_excel_formula_cells_placed_only(st, insert_at, y, row, x) ==
    IF x >= Len(row) THEN st
    ELSE LET cell == row[x + 1]
             pos == Pos(insert_at.x + x, insert_at.y + y)
         IN  IF cell = ""
                THEN import_excel_formula_cells_placed_only(st, insert_at, y, row, x + 1)
             ELSE import_excel_formula_cells_placed_only(
                    [st EXCEPT !.sheet = set_cell_value(@, pos, Code(cell))],
                    insert_at, y, row, x + 1)

\* the cells of a formula row from cell x on
RECURSIVE import_excel_formula_cells(_, _, _, _, _)
import_excel_formula_cells(st, insert_at, y, row, x) ==
    IF x >= Len(row) THEN st
    ELSE LET cell == row[x + 1]
             pos == Pos(insert_at.x + x, insert_at.y + y)
         IN  IF cell = ""
                THEN import_excel_formula_cells(st, insert_at, y, row, x + 1)
             ELSE import_excel_formula_cells(
                    [st EXCEPT !.sheet = set_cell_value(@, pos,
                                            Code(cell)),
                               !.formula_compute_ops =
                                    Append(@, Operation_ComputeCode(SheetPos(pos, st.sheet.id)))],
                    insert_at, y, row, x + 1)

\* the rows y0 .. y1 - 1 of the formula range, in order
RECURSIVE import_excel_formulas(_, _, _, _, _, _)
import_excel_formulas(st, rows, insert_at, y0, y1, total_rows) ==
    IF st.error # None \/ y0 >= y1 THEN st
    ELSE IF y1 = y0 + 1
        THEN LET row == rows[y0 + 1]
                 progress ==
                    IF st.current_y_formula % IMPORT_LINES_PER_OPERATION = 0
                    THEN << jsImportProgress(st.current_y_values + st.current_y_formula,
                                             total_rows, 0, 1, Len(row), total_rows) >>
                    ELSE <<>>
                 cells == import_excel_formula_cells(st, insert_at, y0, row, 0)
             IN  [cells EXCEPT !.events = @ \o progress,
                               !.current_y_formula = @ + 1]
    ELSE LET mid == (y0 + y1) \div 2
         IN  import_excel_formulas(
                import_excel_formulas(st, rows, insert_at, y0, mid, total_rows),
                rows, insert_at, mid, y1, total_rows)

\* the loop over the sheets with the recompute Operations of a sheet put
\* in the list before its add-sheet Operation
RECURSIVE import_excel_sheets_recomputes_first(_, _, _, _)
import_excel_sheets_recomputes_first(st, sheets, k, total_rows) ==
    IF k > Len(sheets) THEN st
    ELSE LET created == [st EXCEPT !.sheet = Sheet_new(SheetId_new(k), sheets[k].name, st.order),
                                   !.events = Append(@, Sheet_new_event(sheets[k].name)),
                                   !.order = key_between(@),
                                   !.formula_compute_ops = <<>>]
             range == sheets[k].range
             values == import_excel_values(created, range.value.rows,
                          IF range.value.start = None THEN Pos(1, 1)
                          ELSE xlsx_range_to_pos(range.value.start[1]),
                          0, Len(range.value.rows), total_rows)
             formula == sheets[k].formula
             formulas == import_excel_formulas(values, formula.value.rows,
                          IF formula.value.start = None THEN Pos(0, 0)
                          ELSE xlsx_range_to_pos(formula.value.start[1]),
                          0, Len(formula.value.rows), total_rows)
         IN  IF ~range.ok THEN [created EXCEPT !.error = Some("worksheet_range")]
             ELSE IF ~formula.ok THEN [values EXCEPT !.error = Some("worksheet_formula")]
             ELSE import_excel_sheets_recomputes_first(
                    [formulas EXCEPT !.ops = (@ \o formulas.formula_compute_ops)
                                              \o << Operation_AddSheetSchema(formulas.sheet) >>],
                    sheets, k + 1, total_rows)

\* the loop over the sheets from sheet k on; st.error is set by the step
\* that fails and ends the call
RECURSIVE import_excel_sheets(_, _, _, _)
import_excel_sheets(st, sheets, k, total_rows) ==
    IF k > Len(sheets) THEN st
    ELSE LET created == [st EXCEPT !.sheet = Sheet_new(SheetId_new(k), sheets[k].name, st.order),
                                   !.events = Append(@, Sheet_new_event(sheets[k].name)),
                                   !.order = key_between(@),
                                   !.formula_compute_ops = <<>>]
             range == sheets[k].range
             values == import_excel_values(created, range.value.rows,
                          IF range.value.start = None THEN Pos(1, 1)
                          ELSE xlsx_range_to_pos(range.value.start[1]),
                          0, Len(range.value.rows), total_rows)
             formula == sheets[k].formula
             formulas == import_excel_formulas(values, formula.value.rows,
                          IF formula.value.start = None THEN Pos(0, 0)
                          ELSE xlsx_range_to_pos(formula.value.start[1]),
                          0, Len(formula.value.rows), total_rows)
         IN  IF ~range.ok THEN [created EXCEPT !.error = Some("worksheet_range")]
             ELSE IF ~formula.ok THEN [values EXCEPT !.error = Some("worksheet_formula")]
             ELSE import_excel_sheets(
                    [formulas EXCEPT !.ops = Append(@, Operation_AddSheetSchema(formulas.sheet))
                                              \o formulas.formula_compute_ops],
                    sheets, k + 1, total_rows)

\* the state of the call before the first sheet
import_excel_start ==
    [ops |-> <<>>, events |-> <<>>, current_y_values |-> 0, current_y_formula |-> 0,
     order |-> 0, sheet |-> Sheet_new(0, "", 0), formula_compute_ops |-> <<>>, error |-> None]

\* import_excel_operations returning the add-sheet Operations of all the
\* sheets first and the recompute Operations after them
import_excel_operations_sheets_first(self, file) ==
    LET total_rows == import_excel_total_rows(file.sheets, 1, 0)
        done == import_excel_sheets(import_excel_start, file.sheets, 1, total_rows.value)
    IN  IF ~file.readable THEN Outcome(self, Err("ExcelReader::new"), <<>>)
        ELSE IF name_collision(sheet_names(self), file.sheets)
            THEN Outcome(self, Err("Sheet with name already exists"), <<>>)
        ELSE IF ~total_rows.ok THEN Outcome(self, Err(total_rows.error), <<>>)
        ELSE IF done.error # None THEN Outcome(self, Err(done.error[1]), done.events)
        ELSE Outcome(self,
                     Ok(SelectSeq(done.ops, LAMBDA o : o.op = "AddSheetSchema")
                        \o SelectSeq(done.ops, LAMBDA o : o.op = "ComputeCode")),
                     done.events)

\* import_excel_operations adding the sheets it creates to the grid
import_excel_operations_adding_sheets(self, file) ==
    LET total_rows == import_excel_total_rows(file.sheets, 1, 0)
        done == import_excel_sheets(import_excel_start, file.sheets, 1, total_rows.value)
        created == SelectSeq(done.events, LAMBDA e : e.event = "Sheet::new")
        grown == [self EXCEPT !.sheet_names = @ \cup {created[i].name : i \in DOMAIN created}]
    IN  IF ~file.readable THEN Outcome(self, Err("ExcelReader::new"), <<>>)
        ELSE IF name_collision(sheet_names(self), file.sheets)
            THEN Outcome(self, Err("Sheet with name already exists"), <<>>)
        ELSE IF ~total_rows.ok THEN Outcome(self, Err(total_rows.error), <<>>)
        ELSE IF done.error # None THEN Outcome(grown, Err(done.error[1]), done.events)
        ELSE Outcome(grown, Ok(done.ops), done.events)

\* import_excel_operations returning what ops holds when a sheet fails
import_excel_operations_partial(self, file) ==
    LET total_rows == import_excel_total_rows(file.sheets, 1, 0)
        done == import_excel_sheets(import_excel_start, file.sheets, 1, total_rows.value)
    IN  IF ~file.readable THEN Outcome(self, Err("ExcelReader::new"), <<>>)
        ELSE IF name_collision(sheet_names(self), file.sheets)
            THEN Outcome(self, Err("Sheet with name already exists"), <<>>)
        ELSE IF ~total_rows.ok THEN Outcome(self, Err(total_rows.error), <<>>)
        ELSE Outcome(self, Ok(done.ops), done.events)

import_excel_operations(self, file) ==
    LET total_rows == import_excel_total_rows(file.sheets, 1, 0)
        done == import_excel_sheets(import_excel_start, file.sheets, 1, total_rows.value)
    IN  IF ~file.readable THEN Outcome(self, Err("ExcelReader::new"), <<>>)
        ELSE IF name_collision(sheet_names(self), file.sheets)
            THEN Outcome(self, Err("Sheet with name already exists"), <<>>)
        ELSE IF ~total_rows.ok THEN Outcome(self, Err(total_rows.error), <<>>)
        ELSE IF done.error # None THEN Outcome(self, Err(done.error[1]), done.events)
        ELSE Outcome(self, Ok(done.ops), done.events)

(***************************************************************************)
(* Columnar files.  A file is                                              *)
(*   readable  whether ParquetRecordBatchReaderBuilder::try_new opens it   *)
(*   num_rows  the number of rows its metadata gives                       *)
(*   fields    the names of the fields of its schema                       *)
(*   build     whether builder.build() succeeds                            *)
(*   batches   what the reader yields: each an error or a record batch,    *)
(*             its num_rows and its columns, each column what              *)
(*             arrow_col_to_cell_value_vec makes of it, the values or an   *)
(*             error                                                       *)
(***************************************************************************)
max(a, b) == IF a >= b THEN a ELSE b

\* the headers set in row 0 from header x on
RECURSIVE import_parquet_headers(_, _, _)
import_parquet_headers(cell_values, headers, x) ==
    IF x >= Len(headers) THEN Ok(cell_values)
    ELSE LET r == Array_set(cell_values, x, 0, headers[x + 1])
         IN  IF ~r.ok THEN r ELSE import_parquet_headers(r.value, headers, x + 1)

\* the values of a column set at rows y, y + 1, ... from value index on
RECURSIVE import_parquet_values(_, _, _, _, _)
import_parquet_values(cell_values, x, y, values, index) ==
    IF index >= Len(values) THEN Ok(cell_values)
    ELSE LET r == Array_set(cell_values, x, y + index, values[index + 1])
         IN  IF ~r.ok THEN r ELSE import_parquet_values(r.value, x, y, values, index + 1)

\* the columns of a batch from column col_index on.  st is the state of
\* the call: cell_values, the events, width, height, current_size, and
\* error, set by the step that fails and ends the call
RECURSIVE import_parquet_columns(_, _, _, _, _, _)
import_parquet_columns(st, batch, row_index, col_index, total_size, insert_at) ==
    IF col_index >= Len(batch.columns) THEN st
    ELSE LET values == batch.columns[col_index + 1]
             x == col_index
             y == row_index * batch.num_rows + 1
             r == import_parquet_values(st.cell_values, x, y, values.value, 0)
         IN  IF ~values.ok THEN [st EXCEPT !.error = Some(values.error)]
             ELSE IF ~r.ok THEN [st EXCEPT !.error = Some(r.error)]
             ELSE import_parquet_columns(
                    [st EXCEPT !.cell_values = r.value,
                               !.events = Append(@, jsImportProgress(st.current_size, total_size,
                                                        insert_at.x, insert_at.y,
                                                        st.width, st.height))],
                    batch, row_index, col_index + 1, total_size, insert_at)

\* the loop over the batches from batch row_index on
RECURSIVE import_parquet_batches(_, _, _, _, _)
import_parquet_batches(st, batches, row_index, total_size, insert_at) ==
    IF row_index >= Len(batches) THEN st
    ELSE LET batch == batches[row_index + 1]
             counted == [st EXCEPT !.current_size = @ + batch.value.num_rows,
                                   !.width = max(@, Len(batch.value.columns)),
                                   !.height = max(@, batch.value.num_rows)]
             done == import_parquet_columns(counted, batch.value, row_index, 0,
                                            total_size, insert_at)
         IN  IF ~batch.ok THEN [st EXCEPT !.error = Some(batch.error)]
             ELSE IF done.error # None THEN done
             ELSE import_parquet_batches(done, batches, row_index + 1, total_size, insert_at)

import_parquet_operations(self, sheet_id, file, insert_at) ==
    LET total_size == file.num_rows
        headers == [i \in 1..Len(file.fields) |-> Text(file.fields[i])]
        width == Len(headers)
        array_size == ArraySize_new_or_err(width, total_size + 1)
        cell_values == import_parquet_headers(Array_new_empty(array_size.value), headers, 0)
        done == import_parquet_batches(
                    [cell_values |-> cell_values.value, events |-> <<>>, width |-> width,
                     height |-> 0, current_size |-> 0, error |-> None],
                    file.batches, 0, total_size, insert_at)
        data_table == apply_first_row_as_header(DataTable_from(done.cell_values))
    IN  IF ~file.readable THEN Outcome(self, Err("try_new"), <<>>)
        ELSE IF ~array_size.ok THEN Outcome(self, Err(array_size.error), <<>>)
        ELSE IF ~cell_values.ok THEN Outcome(self, Err(cell_values.error), <<>>)
        ELSE IF ~file.build THEN Outcome(self, Err("build"), <<>>)
        ELSE IF done.error # None THEN Outcome(self, Err(done.error[1]), done.events)
        ELSE Outcome(self,
                     Ok(<< Operation_AddDataTable(SheetPos(insert_at, sheet_id), data_table) >>),
                     done.events)

(***************************************************************************)
(* The constructors of CellValues.  Each gives Result(object, "ok", None), *)
(* or "panic" when an assertion or an index of it fails.                   *)
(***************************************************************************)
new_blank(w, h) ==
    Result([columns |-> [i \in 1..w |-> [y \in 0..(h - 1) |-> Blank]], w |-> w, h |-> h],
           "ok", None)

\* value i of the flat array goes to x = i % w, y = i / w
from_flat_array(w, h, values) ==
    IF w * h # Len(values) THEN Result(new(0, 0), "panic", None)
    ELSE Result([columns |-> [c \in 1..w |->
                                [y \in {i \div w : i \in {i \in 0..(Len(values) - 1) :
                                                              i % w = c - 1}} |->
                                    values[y * w + c]]],
                 w |-> w, h |-> h], "ok", None)

\* From<Vec<Vec<CellValue>>>: values[y][x], w the longest row
from_vec_vec_cell_value(values) ==
    LET lens == {Len(values[j]) : j \in DOMAIN values}
        w == IF lens = {} THEN 0 ELSE CHOOSE n \in lens : \A m \in lens : m <= n
        h == Len(values)
    IN  Result([columns |-> [c \in 1..w |->
                                [y \in {y \in 0..(h - 1) : Len(values[y + 1]) >= c} |->
                                    values[y + 1][c]]],
                w |-> w, h |-> h], "ok", None)

\* From<Vec<Vec<Option<CellValue>>>> with every value inserted in its
\* column as it is, h staying the length of the first column
from_vec_vec_option_first_column_height(values) ==
    IF values = <<>> THEN Result(new(0, 0), "panic", None)
    ELSE Result([columns |-> [c \in 1..Len(values) |->
                                [y \in {y \in 0..(Len(values[c]) - 1) :
                                            values[c][y + 1] # None} |->
                                    values[c][y + 1][1]]],
                 w |-> Len(values), h |-> Len(values[1])], "ok", None)

\* the loops of From<Vec<Vec<Option<CellValue>>>> from value y of column x on
RECURSIVE from_vec_vec_option_set(_, _, _, _)
from_vec_vec_option_set(cell_values, values, x, y) ==
    IF x >= Len(values) THEN cell_values
    ELSE IF y >= Len(values[x + 1]) THEN from_vec_vec_option_set(cell_values, values, x + 1, 0)
    ELSE from_vec_vec_option_set(
            IF values[x + 1][y + 1] = None THEN cell_values
            ELSE set(cell_values, x, y, values[x + 1][y + 1][1]).self,
            values, x, y + 1)

\* From<Vec<Vec<Option<CellValue>>>>: values[x][y]; values[0] fails on an
\* empty vector
from_vec_vec_option(values) ==
    IF values = <<>> THEN Result(new(0, 0), "panic", None)
    ELSE Result(from_vec_vec_option_set(new(Len(values), Len(values[1])), values, 0, 0),
                "ok", None)

\* From<Vec<Vec<&str>>>: values[x][y], h the longest column, an empty
\* string leaves no value
from_vec_vec_str(values) ==
    LET lens == {Len(values[j]) : j \in DOMAIN values}
        w == Len(values)
        h == IF lens = {} THEN 0 ELSE CHOOSE n \in lens : \A m \in lens : m <= n
    IN  Result([columns |-> [c \in 1..w |->
                                [y \in {y \in 0..(Len(values[c]) - 1) :
                                            values[c][y + 1] # ""} |->
                                    Text(values[c][y + 1])]],
                w |-> w, h |-> h], "ok", None)

\* From<CellValue>
from_cell_value(value) == Result(set(new(1, 1), 0, 0, value).self, "ok", None)

\* From<Array>: the values of the block row by row, as a flat array
RECURSIVE into_cell_values_vec(_, _)
into_cell_values_vec(array, row) ==
    IF row >= array.h THEN <<>>
    ELSE Array_get_row(array, row)[1] \o into_cell_values_vec(array, row + 1)
from_array(array) == from_flat_array(array.w, array.h, into_cell_values_vec(array, 0))

(***************************************************************************)
(* The CellValues state machine: one object, any sequence of calls.        *)
(*   cv       the object                                                   *)
(*   last     the call that has just returned: its name, arguments,        *)
(*            outcome, return value and the bounds the object had before   *)
(*            it; NoCall once the caller has dropped the return value,     *)
(*            which it does before its next call                           *)
(*   written  per coordinate, the value of the last set there that no      *)
(*            later remove of that coordinate has followed (history)       *)
(***************************************************************************)
Coords == 0..MaxCoord
Values == {Blank, Text("a")}
NoRect == Rect_new(0, 0, 0, 0)
Rects == {Rect_new(x0, y0, x1, y1) : x0 \in Coords, y0 \in Coords, x1 \in Coords, y1 \in Coords}
InputRects == {rect \in Rects : rect.min_x <= rect.max_x /\ rect.min_y <= rect.max_y}

Call(op, x, y, value, rect, before, r) ==
    [op |-> op, x |-> x, y |-> y, value |-> value, rect |-> rect,
     w0 |-> before.w, h0 |-> before.h, outcome |-> r.outcome, ret |-> r.ret]

NoCall ==
    [op |-> "none", x |-> 0, y |-> 0, value |-> Blank, rect |-> NoRect,
     w0 |-> 0, h0 |-> 0, outcome |-> "ok", ret |-> None]

(***************************************************************************)
(* The convert_grid_to_json tool.  The process is                          *)
(*   pc        the statement of main it is at, "exited" once it has ended  *)
(*   args      its arguments after the program name                        *)
(*   env       what its calls meet: whether fs::read, import, export_json  *)
(*             and fs::write succeed                                       *)
(*   path, path_out  the locals of main, None before they are bound        *)
(*   stderr    the lines written to the error stream                       *)
(*   status    None while it runs, Some(exit status) once it has ended     *)
(*   files     the paths written by fs::write                              *)
(* A path is the sequence of its pieces, ".grid" being a piece.            *)
(***************************************************************************)
\* path.replace(".grid", ".json")
replace_grid_json(path) ==
    [i \in DOMAIN path |-> IF path[i] = ".grid" THEN ".json" ELSE path[i]]

\* std::process::exit(code) and a panic of the main thread
exit(t, code) == [t EXCEPT !.pc = "exited", !.status = Some(code)]
eprintln(t, line) == [t EXCEPT !.stderr = Append(@, line)]
panic(t, message) == exit(eprintln(t, message), 101)

\* lines 12-14: args.get(1).expect("missing path") and path_out
main_args(t) ==
    IF t.args = <<>> THEN panic(t, "missing path")
    ELSE [t EXCEPT !.pc = "read", !.path = Some(t.args[1]),
                   !.path_out = Some(replace_grid_json(t.args[1]))]

\* lines 15-18: fs::read(path)
main_read(t) ==
    IF t.env.read THEN [t EXCEPT !.pc = "import"]
    ELSE exit(eprintln(t, "failed to read from path"), 1)

\* lines 19-22: import(file)
main_import(t) ==
    IF t.env.import THEN [t EXCEPT !.pc = "export_json"]
    ELSE exit(eprintln(t, "failed to import from path"), 1)

\* export_json(grid) with the data defaulted when it fails
main_export_json_or_default(t) == [t EXCEPT !.pc = "write"]

\* lines 23-26: export_json(grid)
main_export_json(t) ==
    IF t.env.export_json THEN [t EXCEPT !.pc = "write"]
    ELSE exit(eprintln(t, "failed to export to JSON"), 1)

\* lines 28-29: fs::write(path_out, data).expect(..), then main returns
main_write(t) ==
    IF t.env.write THEN exit([t EXCEPT !.files = @ \cup {t.path_out[1]}], 0)
    ELSE panic(t, "failed to write to {path_out}")

\* the process before main runs
Process(args, env) ==
    [pc |-> "args", args |-> args, env |-> env, path |-> None, path_out |-> None,
     stderr |-> <<>>, status |-> None, files |-> {}]

IdleTool ==
    tool = Process(<<>>, [read |-> TRUE, import |-> TRUE, export_json |-> TRUE,
                          write |-> TRUE])

\* the components a specification leaves alone
IdleCV ==
    /\ cv = new(0, 0)
    /\ last = NoCall
    /\ written = [c \in Coords \X Coords |-> None]
IdleFmt ==
    /\ fmts = Formats_new
    /\ pushed = <<>>
IdleGuess ==
    /\ block = Array_new_empty([w |-> 1, h |-> 1])
    /\ guessed = None
NoImport ==
    [op |-> "none", file |-> <<>>, header_is_first_row |-> None, ret |-> Ok(<<>>),
     events |-> <<>>]
IdleImport ==
    /\ gc = [sheet_names |-> {"Sheet1"}]
    /\ imported = NoImport

InitCV ==
    /\ IdleFmt /\ IdleGuess /\ IdleImport /\ IdleTool
    /\ \E w \in 0..MaxInit, h \in 0..MaxInit :
          /\ cv = new(w, h)
          /\ last = Call("new", w, h, Blank, NoRect, new(w, h), Result(new(w, h), "ok", None))
    /\ written = [c \in Coords \X Coords |-> None]

Set(x, y, value) ==
    LET r == set(cv, x, y, value)
    IN  /\ cv' = r.self
        /\ last' = Call("set", x, y, value, NoRect, cv, r)
        /\ written' = [written EXCEPT ![<<x, y>>] = Some(value)]
        /\ UNCHANGED <<fmtVars, guessVars, importVars, toolVars>>

Remove(x, y) ==
    LET r == remove(cv, x, y)
    IN  /\ cv' = r.self
        /\ last' = Call("remove", x, y, Blank, NoRect, cv, r)
        /\ written' = [written EXCEPT ![<<x, y>>] = None]
        /\ UNCHANGED <<fmtVars, guessVars, importVars, toolVars>>

\* the coordinates get_rect hands to remove
Removed(rect) ==
    {<<u32_try_from_or_0(x), u32_try_from_or_0(y)>> :
        x \in rect.min_x..rect.max_x, y \in rect.min_y..rect.max_y}

GetRect(rect) ==
    LET r == get_rect(cv, rect)
    IN  /\ cv' = r.self
        /\ last' = Call("get_rect", 0, 0, Blank, rect, cv, r)
        /\ written' = [c \in Coords \X Coords |-> IF c \in Removed(rect) THEN None ELSE written[c]]
        /\ UNCHANGED <<fmtVars, guessVars, importVars, toolVars>>

Read(op, x, y) ==
    LET r == CASE op = "get" -> get(cv, x, y)
               [] op = "get_except_blank" -> get_except_blank(cv, x, y)
               [] op = "safe_get" -> safe_get(cv, x, y)
               [] op = "get_owned" -> get_owned(cv, x, y)
    IN  /\ last' = Call(op, x, y, Blank, NoRect, cv, r)
        /\ UNCHANGED <<cv, written, fmtVars, guessVars, importVars, toolVars>>

Get == last = NoCall /\ \E x \in Coords, y \in Coords : Read("get", x, y)
GetExceptBlank == last = NoCall /\ \E x \in Coords, y \in Coords : Read("get_except_blank", x, y)
SafeGet == last = NoCall /\ \E x \in Coords, y \in Coords : Read("safe_get", x, y)
GetOwned == last = NoCall /\ \E x \in Coords, y \in Coords : Read("get_owned", x, y)
\* the coordinates that hold a value
stored(self) == {<<x, y>> \in Coords \X Coords : columns_get(self, x, y) # None}
SetCell ==
    /\ last = NoCall
    /\ \E x \in Coords, y \in Coords, value \in Values :
          /\ Cardinality(stored(set(cv, x, y, value).self)) <= MaxCells
          /\ Set(x, y, value)
RemoveCell == last = NoCall /\ \E x \in Coords, y \in Coords : Remove(x, y)
GetRectCells == last = NoCall /\ \E rect \in InputRects : GetRect(rect)
\* the caller drops what the call returned
Discard ==
    /\ last # NoCall
    /\ last' = NoCall
    /\ UNCHANGED <<cv, written, fmtVars, guessVars, importVars, toolVars>>

NextCV ==
    \/ SetCell
    \/ RemoveCell
    \/ GetRectCells
    \/ Get
    \/ GetExceptBlank
    \/ SafeGet
    \/ GetOwned
    \/ Discard

SpecCV == InitCV /\ [][NextCV]_vars

(***************************************************************************)
(* The same machine begun by any constructor: vectors of up to two vectors *)
(* of up to two values, blocks of up to two by two.                        *)
(***************************************************************************)
Vectors(S) == UNION {[1..n -> S] : n \in 0..2}
Arrays ==
    {Array_new_empty([w |-> w, h |-> h]) : w \in 1..2, h \in 1..2}
    \cup {Array_set(Array_new_empty([w |-> w, h |-> 2]), w - 1, 1, Text("a")).value : w \in 1..2}

Constructed ==
    {new(w, h) : w \in 0..2, h \in 0..2}
    \cup {r.self : r \in {r \in
            {new_blank(w, h) : w \in 0..2, h \in 0..2}
            \cup {from_flat_array(w, h, <<>>) : w \in 0..2, h \in 0..2}
            \cup {from_flat_array(w, h, [i \in 1..(w * h) |-> IF i = w * h THEN Text("a") ELSE Blank]) :
                    w \in 0..2, h \in 0..2}
            \cup {from_flat_array(2, 1, <<Blank>>)}
            \cup {from_vec_vec_cell_value(values) : values \in Vectors(Vectors(Values))}
            \cup {from_vec_vec_option(values) : values \in Vectors(Vectors({None} \cup {Some(v) : v \in Values}))}
            \cup {from_vec_vec_str(values) : values \in Vectors(Vectors({"", "a"}))}
            \cup {from_cell_value(value) : value \in Values}
            \cup {from_array(array) : array \in Arrays} : r.outcome = "ok"}}

InitCons ==
    /\ IdleFmt /\ IdleGuess /\ IdleImport /\ IdleTool
    /\ cv \in Constructed
    /\ last = NoCall
    /\ written = [c \in Coords \X Coords |-> None]

NextCons ==
    \/ SetCell
    \/ RemoveCell
    \/ GetRectCells
    \/ Discard

SpecCons == InitCons /\ [][NextCons]_vars

(***************************************************************************)
(* Claims about CellValues, checked under SpecCV.                          *)
(***************************************************************************)

ReadOps == {"get", "get_except_blank", "safe_get", "get_owned"}

\* C7: a read accessor called with x >= w or y >= h fails, get and
\* get_except_blank by a failed assertion, safe_get and get_owned by a
\* returned error, and returns no value.
C7_ReadOutOfBoundsFails ==
    (last.op \in ReadOps /\ (last.x >= cv.w \/ last.y >= cv.h)) =>
        /\ last.op \in {"get", "get_except_blank"} => last.outcome = "panic"
        /\ last.op \in {"safe_get", "get_owned"} => last.outcome = "err"
        /\ last.ret = None

\* an assertion failure of get_except_blank one row below the bounds of an
\* object whose width a set has extended and which holds a value
C7_Witness ==
    /\ last.op = "get_except_blank"
    /\ last.outcome = "panic"
    /\ last.x < cv.w
    /\ last.y >= cv.h
    /\ cv.w > MaxInit
    /\ stored(cv) # {}

rect_in_bounds(self, rect) ==
    /\ 0 <= rect.min_x /\ rect.min_x <= rect.max_x /\ rect.max_x < self.w
    /\ 0 <= rect.min_y /\ rect.min_y <= rect.max_y /\ rect.max_y < self.h
rect_contains(rect, x, y) ==
    /\ rect.min_x <= x /\ x <= rect.max_x
    /\ rect.min_y <= y /\ y <= rect.max_y

\* C9: a step that is get_rect(rect), rect inside the bounds, returns
\* rect.height rows of rect.width cells, each the value stored at its
\* coordinate before the call or Blank when none was; afterwards nothing is
\* stored inside the rect and everything stored outside it is as before.
C9_GetRectStep ==
    (last'.op = "get_rect" /\ rect_in_bounds(cv, last'.rect)) =>
        LET rect == last'.rect
            values == last'.ret
        IN  /\ last'.outcome = "ok"
            /\ Len(values) = Rect_height(rect)
            /\ \A j \in 1..Rect_height(rect) :
                  /\ Len(values[j]) = Rect_width(rect)
                  /\ \A i \in 1..Rect_width(rect) :
                        values[j][i] =
                            unwrap_or(columns_get(cv, rect.min_x + i - 1, rect.min_y + j - 1), Blank)
            /\ \A x \in Coords, y \in Coords :
                  columns_get(cv', x, y) =
                      (IF rect_contains(rect, x, y) THEN None ELSE columns_get(cv, x, y))
C9_GetRectExtracts == [][C9_GetRectStep]_vars

\* a get_rect inside the bounds that returned a stored value and a Blank
\* filler and left a cell stored outside the rect
C9_Witness ==
    /\ last.op = "get_rect"
    /\ last.outcome = "ok"
    /\ rect_in_bounds(cv, last.rect)
    /\ \E j \in DOMAIN last.ret : \E i \in DOMAIN last.ret[j] : last.ret[j][i] = Text("a")
    /\ \E j \in DOMAIN last.ret : \E i \in DOMAIN last.ret[j] :
          /\ last.ret[j][i] = Blank
          /\ written[<<last.rect.min_x + i - 1, last.rect.min_y + j - 1>>] = None
    /\ stored(cv) # {}

(***************************************************************************)
(* The Formats state machine: an object built by new or repeat, then any   *)
(* pushes.  pushed is the flat sequence of the updates pushed so far.      *)
(***************************************************************************)
FormatUpdates == {"default", "bold", "italic"}
Copies(update, count) == [i \in 1..count |-> update]

InitFmt ==
    /\ IdleCV /\ IdleGuess /\ IdleImport /\ IdleTool
    /\ \/ fmts = Formats_new /\ pushed = <<>>
       \/ \E update \in FormatUpdates, count \in 1..MaxSize :
             /\ fmts = Formats_repeat(update, count)
             /\ pushed = Copies(update, count)

Push ==
    \E update \in FormatUpdates :
        /\ Len(pushed) < MaxSize
        /\ fmts' = Formats_push(fmts, update)
        /\ pushed' = Append(pushed, update)
        /\ UNCHANGED <<cvVars, guessVars, importVars, toolVars>>

PushN ==
    \E update \in FormatUpdates, count \in 1..MaxSize :
        /\ Len(pushed) + count <= MaxSize
        /\ fmts' = Formats_push_n(fmts, update, count)
        /\ pushed' = pushed \o Copies(update, count)
        /\ UNCHANGED <<cvVars, guessVars, importVars, toolVars>>

Repeat ==
    \E update \in FormatUpdates, count \in 1..MaxSize :
        /\ fmts' = Formats_repeat(update, count)
        /\ pushed' = Copies(update, count)
        /\ UNCHANGED <<cvVars, guessVars, importVars, toolVars>>

NextFmt ==
    \/ Push
    \/ PushN
    \/ Repeat

SpecFmt == InitFmt /\ [][NextFmt]_vars

\* the number of equal updates pushed last
RECURSIVE trailing(_)
trailing(seq) ==
    IF Len(seq) <= 1 THEN Len(seq)
    ELSE IF seq[Len(seq)] = seq[Len(seq) - 1] THEN 1 + trailing(SubSeq(seq, 1, Len(seq) - 1))
    ELSE 1

\* C10: the same update pushed k times in a row makes one run of length k:
\* the trailing run has the length of the trailing streak of equal updates,
\* a store built of k copies of one update is the single run <<update, k>>,
\* its size is the number of updates pushed and get_at returns each of them.
C10_SameUpdateOneRun ==
    pushed # <<>> =>
        LET runs == fmts.formats
            k == trailing(pushed)
            update == pushed[Len(pushed)]
        IN  /\ runs # <<>>
            /\ runs[Len(runs)] = <<update, k>>
            /\ k = Len(pushed) => runs = << <<update, k>> >>
            /\ Formats_size(fmts) = Len(pushed)
            /\ \A i \in 0..(Len(pushed) - 1) : Formats_get_at(fmts, i) = Some(pushed[i + 1])

\* the same update pushed three times, held as one run of length 3
C10_Witness ==
    /\ Len(pushed) >= 3
    /\ trailing(pushed) = Len(pushed)
    /\ Len(fmts.formats) = 1
    /\ Formats_size(fmts) = Len(pushed)

(***************************************************************************)
(* Header inference: a block is drawn, guess_csv_first_row_is_header is    *)
(* applied to it.                                                          *)
(***************************************************************************)
BlockValues == {Text("a"), Text("b"), Number("1")}
InitGuess ==
    /\ IdleCV /\ IdleFmt /\ IdleImport /\ IdleTool
    /\ \E w \in 1..MaxBlockWidth, h \in 1..MaxBlockHeight :
          \E values \in [1..h -> [1..w -> BlockValues]] :
              block = [w |-> w, h |-> h, rows |-> [j \in 1..h |-> <<1, values[j]>>]]
    /\ guessed = None

Guess ==
    /\ guessed = None
    /\ guessed' = Some(guess_csv_first_row_is_header(block))
    /\ UNCHANGED <<block, cvVars, fmtVars, importVars, toolVars>>

NextGuess ==
    \/ Guess

SpecGuess == InitGuess /\ [][NextGuess]_vars

\* the sequence of the variant tags of a row of the block
RowTags(r) == [i \in 1..block.w |-> block.rows[r][2][i].tag]

HeaderFlags == {None, Some(TRUE), Some(FALSE)}
InsertAt == Pos(1, 1)
\* the id of the sheet a data table is imported into
TargetSheet == 0

\* delimited files: up to MaxRuns runs of these lengths of these records
RunLengths == {1, 2, IMPORT_LINES_PER_OPERATION, 2 * IMPORT_LINES_PER_OPERATION}
Records == {Record(<<"a">>), Record(<<"1">>), Record(<<"a", "1">>), Utf8Error}
\* the file of these records: UTF-8 when every record is text, bytes that
\* are neither UTF-8 nor UTF-16 when one is not
CsvFile(records) ==
    [utf8 |-> \A k \in DOMAIN records : records[k][2].ok, utf16 |-> None, records |-> records]
\* the UTF-16 file of a text of these records
CsvFileUtf16(records) ==
    [utf8 |-> FALSE, utf16 |-> Some(records), records |-> << <<1, Utf8Error>> >>]

\* workbooks: up to MaxSheets sheets, each with one of these value ranges
\* and one of these formula ranges
SheetNames == {"S1", "S2", "S3"}
\* a row of date-time cells: a date, a time of day, a date and time, the
\* zero date at the zero time, a date-time that does not decode, a duration
DateTimeCells ==
    << ExcelData_DateTime("33228", TRUE, Some(NaiveDateTime("1990-12-21", zero_time))),
       ExcelData_DateTime("1.5576", TRUE, Some(NaiveDateTime(zero_date, "13:23:00"))),
       ExcelData_DateTime("44201.65625", TRUE, Some(NaiveDateTime("2021-01-05", "15:45:00"))),
       ExcelData_DateTime("1", TRUE, Some(NaiveDateTime(zero_date, zero_time))),
       ExcelData_DateTime("-1", TRUE, None),
       ExcelData_DateTime("0.5", FALSE, None) >>
ValueRanges ==
    << Err("worksheet_range"),
       Ok(Range(None, <<>>)),
       Ok(Range(Some(<<0, 0>>), << <<ExcelData_String("a")>> >>)),
       Ok(Range(Some(<<1, 0>>), << <<ExcelData_String("a"), ExcelData_Empty>>,
                                   <<ExcelData_Error, ExcelData_String("b")>> >>)),
       Ok(Range(Some(<<0, 0>>), << DateTimeCells >>)) >>
FormulaRanges ==
    << Err("worksheet_formula"),
       Ok(Range(None, <<>>)),
       Ok(Range(Some(<<0, 0>>), << <<"=1">> >>)),
       Ok(Range(Some(<<1, 1>>), << <<"", "=A1">>, <<"=B1", "">>, <<"", "">> >>)) >>
Workbook(names, values, formulas) ==
    [readable |-> TRUE,
     sheets |-> [k \in DOMAIN names |->
                    [name |-> names[k], range |-> ValueRanges[values[k]],
                     formula |-> FormulaRanges[formulas[k]]]]]
Unreadable == [readable |-> FALSE, sheets |-> <<>>]

\* long workbooks: the sheets of each are the heights <<value range,
\* formula range>>; the first row of a range holds a cell, the rows below
\* it are empty
LongWorkbooks ==
    { << <<IMPORT_LINES_PER_OPERATION + 1, 0>> >>,
      << <<1, IMPORT_LINES_PER_OPERATION + 1>> >>,
      << <<IMPORT_LINES_PER_OPERATION, 0>>, <<1, 1>> >> }
LongRange(height, first, rest) ==
    Ok(Range(IF height = 0 THEN None ELSE Some(<<0, 0>>),
             [y \in 1..height |-> IF y = 1 THEN <<first>> ELSE <<rest>>]))
LongWorkbook(heights) ==
    [readable |-> TRUE,
     sheets |-> [k \in DOMAIN heights |->
                    [name |-> IF k = 1 THEN "S1" ELSE "S2",
                     range |-> LongRange(heights[k][1], ExcelData_String("a"), ExcelData_Empty),
                     formula |-> LongRange(heights[k][2], "=1", "")]]]

\* columnar files: num_cols columns, num_rows rows in batches of batch_size
\* (the last one shorter when num_rows is no multiple of it); failure names
\* what is wrong with the file
Letters == <<"a", "b", "c">>
Digits == <<"0", "1", "2", "3", "4", "5", "6", "7", "8", "9">>
ParquetValue(row, col) == Text(Letters[col + 1] \o Digits[row + 1])
ParquetFailures == {"none", "try_new", "build", "batch", "column"}
ParquetBatch(first, num_rows, num_cols, failure) ==
    Ok([num_rows |-> num_rows,
        columns |-> [c \in 1..num_cols |->
                        IF failure = "column" /\ c = num_cols
                        THEN Err("arrow_col_to_cell_value_vec")
                        ELSE Ok([i \in 1..num_rows |-> ParquetValue(first + i - 1, c - 1)])]])
ParquetFile(num_cols, num_rows, batch_size, failure) ==
    LET count == (num_rows + batch_size - 1) \div batch_size
    IN  [readable |-> failure # "try_new",
         num_rows |-> num_rows,
         fields |-> [c \in 1..num_cols |-> Letters[c]],
         build |-> failure # "build",
         batches |-> [b \in 1..count |->
                        IF failure = "batch" /\ b = count THEN Err("batch")
                        ELSE ParquetBatch((b - 1) * batch_size,
                                          IF b * batch_size <= num_rows THEN batch_size
                                          ELSE num_rows - (b - 1) * batch_size,
                                          num_cols, failure)]]

\* texts: up to MaxText of these chars, 'a', U+00D8, U+20AC, ',' and the
\* line feed, in one of these encodings; a UTF-16 encoding starts with the
\* byte-order mark U+FEFF; ISO-8859-1 has a byte per char and none for
\* U+20AC
PreviewChars == {97, 216, 8364, 44, 10}
Encodings == {"UTF-8", "UTF-16LE", "UTF-16BE", "ISO-8859-1"}
\* the 16-bit code units of a String
RECURSIVE encode_utf16(_)
encode_utf16(str) ==
    IF str = <<>> THEN <<>>
    ELSE (IF str[1] < 65536 THEN << str[1] >>
          ELSE << 55296 + ((str[1] - 65536) \div 1024), 56320 + ((str[1] - 65536) % 1024) >>)
         \o encode_utf16(Tail(str))
RECURSIVE units_bytes(_, _)
units_bytes(units, encoding) ==
    IF units = <<>> THEN <<>>
    ELSE (IF encoding = "UTF-16LE" THEN << units[1] % 256, units[1] \div 256 >>
          ELSE << units[1] \div 256, units[1] % 256 >>)
         \o units_bytes(Tail(units), encoding)
TextFile(text, encoding, max_rows) ==
    [text |-> text, encoding |-> encoding, max_rows |-> max_rows,
     bytes |-> IF encoding = "UTF-8" THEN str_as_bytes(text)
               ELSE IF encoding = "ISO-8859-1" THEN text
               ELSE units_bytes(<< 65279 >> \o encode_utf16(text), encoding)]

Controllers == {[sheet_names |-> {"Sheet1"}],
                [sheet_names |-> {"Sheet1", "S1"}],
                [sheet_names |-> {"Sheet1", "S2", "S3"}]}

Imported(op, file, header_is_first_row, r) ==
    [op |-> op, file |-> file, header_is_first_row |-> header_is_first_row,
     ret |-> r.ret, events |-> r.events]

InitImport ==
    /\ IdleCV /\ IdleFmt /\ IdleGuess /\ IdleTool
    /\ gc \in Controllers
    /\ imported = NoImport

ImportCsvFile(file, header_is_first_row) ==
    LET r == import_csv_operations(gc, TargetSheet, file, InsertAt, header_is_first_row)
    IN  /\ gc' = r.self
        /\ imported' = Imported("import_csv_operations", file, header_is_first_row, r)
        /\ UNCHANGED <<cvVars, fmtVars, guessVars, toolVars>>

ImportCsv ==
    /\ imported.op = "none"
    /\ \E n \in 0..MaxRuns, header_is_first_row \in HeaderFlags :
          \E records \in [1..n -> RunLengths \X Records] :
              \/ ImportCsvFile(CsvFile(records), header_is_first_row)
              \/ /\ \A k \in 1..n : records[k][2].ok
                 /\ ImportCsvFile(CsvFileUtf16(records), header_is_first_row)

ImportExcelFile(file) ==
    LET r == import_excel_operations(gc, file)
    IN  /\ gc' = r.self
        /\ imported' = Imported("import_excel_operations", file, None, r)
        /\ UNCHANGED <<cvVars, fmtVars, guessVars, toolVars>>

ImportExcel ==
    /\ imported.op = "none"
    /\ \/ ImportExcelFile(Unreadable)
       \/ \E n \in 0..MaxSheets :
             \E names \in [1..n -> SheetNames], values \in [1..n -> DOMAIN ValueRanges],
                formulas \in [1..n -> DOMAIN FormulaRanges] :
                 /\ \A i, j \in 1..n : names[i] = names[j] => i = j
                 /\ ImportExcelFile(Workbook(names, values, formulas))

ImportLongExcel ==
    /\ imported.op = "none"
    /\ \E heights \in LongWorkbooks : ImportExcelFile(LongWorkbook(heights))

ImportParquet ==
    /\ imported.op = "none"
    /\ \E num_cols \in 0..2, num_rows \in 0..MaxRows, batch_size \in 1..MaxBatchSize,
          failure \in ParquetFailures :
           LET file == ParquetFile(num_cols, num_rows, batch_size, failure)
               r == import_parquet_operations(gc, TargetSheet, file, InsertAt)
           IN  /\ gc' = r.self
               /\ imported' = Imported("import_parquet_operations", file, None, r)
               /\ UNCHANGED <<cvVars, fmtVars, guessVars, toolVars>>

\* get_csv_preview of a text file with the delimiter ',' given, for a
\* preview of two rows (texts of three lines are cut), and of one row for
\* the files in ISO-8859-1
PreviewCsv ==
    /\ imported.op = "none"
    /\ \E n \in 0..MaxText, encoding \in Encodings :
          \E text \in [1..n -> PreviewChars],
             max_rows \in (IF encoding = "ISO-8859-1" THEN {1} ELSE {2}) :
              LET file == TextFile(text, encoding, max_rows)
                  r == get_csv_preview(file.bytes, max_rows, Some(44))
              IN  /\ encoding = "ISO-8859-1" => \A i \in 1..n : text[i] < 256
                  /\ imported' = Imported("get_csv_preview", file, None, Outcome(gc, r, <<>>))
                  /\ UNCHANGED <<gc, cvVars, fmtVars, guessVars, toolVars>>

\* the caller drops the Result
Forget ==
    /\ imported.op # "none"
    /\ imported' = NoImport
    /\ UNCHANGED <<gc, cvVars, fmtVars, guessVars, toolVars>>

NextImport ==
    \/ ImportCsv
    \/ ImportExcel
    \/ ImportLongExcel
    \/ ImportParquet
    \/ PreviewCsv
    \/ Forget

SpecImport == InitImport /\ [][NextImport]_vars

(***************************************************************************)
(* Claims about the ingesters, checked under SpecImport.                   *)
(***************************************************************************)

\* the records import_csv_operations parses: those of the recovered text
\* when the bytes are not UTF-8 and read_utf16 recovers one
ParsedRecords(file) ==
    IF ~file.utf8 /\ file.utf16 # None THEN file.utf16[1] ELSE file.records

\* a delimited file no block can be made of: no record, a record that is
\* not text, or a record with more fields than the last one
CsvMalformed(file) ==
    LET records == ParsedRecords(file)
    IN  \/ records = <<>>
        \/ \E k \in DOMAIN records : ~records[k][2].ok
        \/ \E k \in DOMAIN records :
              Len(records[k][2].fields) > Len(records[Len(records)][2].fields)

\* the list is one AddDataTable whose block has a row for every record of
\* the file, the first and the last row of every run holding its fields
CsvComplete(ops, file) ==
    LET records == ParsedRecords(file)
    IN  /\ Len(ops) = 1
        /\ ops[1].op = "AddDataTable"
        /\ ops[1].data_table.value.h = records_count(records)
        /\ \A k \in DOMAIN records :
              LET first == records_count(SubSeq(records, 1, k - 1))
                  fields == records[k][2].fields
              IN  \A y \in {first, first + records[k][1] - 1} :
                      LET row == Array_get_row(ops[1].data_table.value, y)[1]
                      IN  \A i \in DOMAIN row :
                              row[i] = (IF i <= Len(fields) THEN string_to_cell_value(fields[i])
                                        ELSE Blank)

\* a workbook that cannot be read, whose sheet names collide with the
\* grid's, or one of whose ranges cannot be read
ExcelMalformed(self, file) ==
    \/ ~file.readable
    \/ \E k \in DOMAIN file.sheets : file.sheets[k].name \in self.sheet_names
    \/ \E k \in DOMAIN file.sheets : ~file.sheets[k].range.ok \/ ~file.sheets[k].formula.ok

\* the non-empty formula cells of sheet k, as <<k, row, column>>
FormulaCells(file, k) ==
    LET rows == file.sheets[k].formula.value.rows
    IN  UNION {{<<k, y, x>> : x \in {i \in DOMAIN rows[y] : rows[y][i] # ""}} : y \in DOMAIN rows}

\* the list holds an AddSheetSchema for every sheet of the workbook, in the
\* workbook's order, and a ComputeCode for every non-empty formula cell
ExcelComplete(ops, file) ==
    LET added == SelectSeq(ops, LAMBDA o : o.op = "AddSheetSchema")
        computes == SelectSeq(ops, LAMBDA o : o.op = "ComputeCode")
    IN  /\ Len(added) = Len(file.sheets)
        /\ \A k \in DOMAIN added : added[k].schema.name = file.sheets[k].name
        /\ Len(computes) = Cardinality(UNION {FormulaCells(file, k) : k \in DOMAIN file.sheets})
        /\ Len(ops) = Len(added) + Len(computes)

\* a columnar file that cannot be opened or built, has no column, or holds
\* a batch or a column that cannot be read
ParquetMalformed(file) ==
    \/ ~file.readable
    \/ ~file.build
    \/ file.fields = <<>>
    \/ \E b \in DOMAIN file.batches :
          \/ ~file.batches[b].ok
          \/ \E c \in DOMAIN file.batches[b].value.columns : ~file.batches[b].value.columns[c].ok

\* the list is one AddDataTable whose block has the file's columns, a row
\* for the header and one for every row of the file
ParquetComplete(ops, file) ==
    /\ Len(ops) = 1
    /\ ops[1].op = "AddDataTable"
    /\ ops[1].data_table.value.w = Len(file.fields)
    /\ ops[1].data_table.value.h = file.num_rows + 1
    /\ Array_get_row(ops[1].data_table.value, 0) = Some([c \in DOMAIN file.fields |-> Text(file.fields[c])])

\* C1: a call of any of the three ingesters returns either the complete
\* list of Operations of a file that has nothing wrong, or an error and no
\* Operation at all, whatever was parsed and notified before the failure.
C1_AllOrNothing ==
    imported.op # "none" =>
        \/ /\ ~imported.ret.ok
           /\ imported.ret.value = <<>>
        \/ /\ imported.ret.ok
           /\ imported.op = "import_csv_operations" =>
                 ~CsvMalformed(imported.file) /\ CsvComplete(imported.ret.value, imported.file)
           /\ imported.op = "import_excel_operations" =>
                 /\ ~ExcelMalformed(gc, imported.file)
                 /\ ExcelComplete(imported.ret.value, imported.file)
           /\ imported.op = "import_parquet_operations" =>
                 /\ ~ParquetMalformed(imported.file)
                 /\ ParquetComplete(imported.ret.value, imported.file)

\* a workbook import that failed at the formulas of its second sheet, with
\* the first sheet done and notified: an error, no Operation
C1_Witness ==
    /\ imported.op = "import_excel_operations"
    /\ ~imported.ret.ok
    /\ imported.ret.error = "worksheet_formula"
    /\ imported.ret.value = <<>>
    /\ Len(imported.file.sheets) = 2
    /\ imported.file.sheets[1].formula.ok
    /\ FormulaCells(imported.file, 1) # {}
    /\ Len(SelectSeq(imported.events, LAMBDA e : e.event = "Sheet::new")) = 2
    /\ Len(SelectSeq(imported.events, LAMBDA e : e.event = "jsImportProgress")) >= 1

\* C2: when a sheet name of the workbook is the name of a sheet of the
\* grid, import_excel_operations returns the name collision error and no
\* Operation, having created no sheet and sent no notification.
C2_CollisionBeforeAnySheet ==
    (/\ imported.op = "import_excel_operations"
     /\ imported.file.readable
     /\ \E k \in DOMAIN imported.file.sheets : imported.file.sheets[k].name \in gc.sheet_names) =>
        /\ ~imported.ret.ok
        /\ imported.ret.error = "Sheet with name already exists"
        /\ imported.ret.value = <<>>
        /\ imported.events = <<>>

\* a collision of the second sheet's name only, behind a first sheet that
\* has rows to walk: no sheet created, nothing notified
C2_Witness ==
    /\ imported.op = "import_excel_operations"
    /\ Len(imported.file.sheets) = 2
    /\ imported.file.sheets[1].name \notin gc.sheet_names
    /\ imported.file.sheets[1].range.ok
    /\ imported.file.sheets[1].range.value.rows # <<>>
    /\ imported.file.sheets[2].name \in gc.sheet_names
    /\ ~imported.ret.ok
    /\ imported.events = <<>>

\* C3: a successful import_csv_operations or import_parquet_operations
\* returns exactly one Operation, an AddDataTable, however many multiples of
\* IMPORT_LINES_PER_OPERATION the rows cross and however many batches the
\* file has.
C3_OneAddDataTable ==
    (imported.op \in {"import_csv_operations", "import_parquet_operations"} /\ imported.ret.ok) =>
        /\ Len(imported.ret.value) = 1
        /\ imported.ret.value[1].op = "AddDataTable"

\* a delimited file of more than twice IMPORT_LINES_PER_OPERATION rows,
\* imported with two notifications and one Operation
C3_Witness ==
    /\ imported.op = "import_csv_operations"
    /\ imported.ret.ok
    /\ imported.ret.value[1].data_table.value.h > 2 * IMPORT_LINES_PER_OPERATION
    /\ Len(imported.events) = 2
    /\ Len(imported.ret.value) = 1

\* the width import_csv_operations discovers is 0: the file has no record,
\* or the reader yields no fields for its last record
ZeroWidth(file) ==
    LET records == ParsedRecords(file)
    IN  \/ records = <<>>
        \/ ~records[Len(records)][2].ok
        \/ records[Len(records)][2].fields = <<>>

\* C11: when the discovered width is 0, import_csv_operations fails with
\* the 'empty files cannot be processed' error and returns no Operation; it
\* does so before the block is allocated (the error is not the one of a
\* block of width 0) and before any record is parsed (no notification is
\* sent, however many records precede the last one).
C11_ZeroWidthFailsFirst ==
    (imported.op = "import_csv_operations" /\ ZeroWidth(imported.file)) =>
        /\ ~imported.ret.ok
        /\ imported.ret.error = "empty files cannot be processed"
        /\ imported.ret.value = <<>>
        /\ imported.events = <<>>

\* a file of IMPORT_LINES_PER_OPERATION and more good records before a last
\* one the reader yields no fields for: the empty-file error, nothing
\* notified
C11_Witness ==
    /\ imported.op = "import_csv_operations"
    /\ Len(imported.file.records) = 2
    /\ imported.file.records[1][2].ok
    /\ imported.file.records[1][1] >= IMPORT_LINES_PER_OPERATION
    /\ ~imported.file.records[2][2].ok
    /\ ~imported.ret.ok
    /\ imported.ret.error = "empty files cannot be processed"
    /\ imported.events = <<>>

\* the index of the last AddSheetSchema of ops before index i, 0 if none
LastAddSheet(ops, i) ==
    LET before == {j \in 1..(i - 1) : ops[j].op = "AddSheetSchema"}
    IN  IF before = {} THEN 0 ELSE CHOOSE j \in before : \A k \in before : k <= j

\* C12 as stated: in the list of a successful import_excel_operations no
\* recompute Operation stands before an add-sheet Operation.
C12_AllSheetsThenRecomputes ==
    (imported.op = "import_excel_operations" /\ imported.ret.ok) =>
        \A i, j \in DOMAIN imported.ret.value :
            (imported.ret.value[i].op = "ComputeCode"
             /\ imported.ret.value[j].op = "AddSheetSchema") => j < i

\* C12: the list of a successful import_excel_operations holds one
\* add-sheet Operation per sheet of the workbook, in the workbook's order,
\* each followed by the recompute Operations of that sheet and of no other:
\* every recompute Operation is of the sheet of the last add-sheet Operation
\* before it.
C12_SheetThenItsRecomputes ==
    (imported.op = "import_excel_operations" /\ imported.ret.ok) =>
        LET ops == imported.ret.value
            added == SelectSeq(ops, LAMBDA o : o.op = "AddSheetSchema")
        IN  /\ Len(added) = Len(imported.file.sheets)
            /\ \A k \in DOMAIN added : added[k].schema.name = imported.file.sheets[k].name
            /\ \A i \in DOMAIN ops :
                  ops[i].op = "ComputeCode" =>
                      /\ LastAddSheet(ops, i) # 0
                      /\ ops[i].sheet_pos.sheet_id = ops[LastAddSheet(ops, i)].schema.id

\* a workbook of two sheets, both with formula cells: the first sheet's
\* recompute Operations stand between the two add-sheet Operations
C12_Witness ==
    /\ imported.op = "import_excel_operations"
    /\ imported.ret.ok
    /\ Len(imported.file.sheets) = 2
    /\ Len(imported.ret.value) >= 4
    /\ imported.ret.value[1].op = "AddSheetSchema"
    /\ imported.ret.value[2].op = "ComputeCode"
    /\ \E j \in 3..Len(imported.ret.value) :
          /\ imported.ret.value[j].op = "AddSheetSchema"
          /\ j < Len(imported.ret.value)
          /\ imported.ret.value[j + 1].op = "ComputeCode"

\* the position on its sheet of the formula cell in row y, column x (both
\* from 1) of sheet k's formula range: the range's start, from 1, plus the
\* cell's offsets within the range
FormulaPos(file, k, y, x) ==
    LET start == file.sheets[k].formula.value.start[1]
    IN  Pos(start[2] + x, start[1] + y)

\* C13: after a successful import_excel_operations every non-empty cell of
\* a sheet's formula range is in that sheet's schema as a Code value of the
\* Formula language whose code is the cell's text, and the list holds
\* exactly one recompute Operation at that cell's position on that sheet;
\* the list holds as many recompute Operations as the workbook has
\* non-empty formula cells.
C13_FormulaCellsPlacedAndRecomputed ==
    (imported.op = "import_excel_operations" /\ imported.ret.ok) =>
        LET ops == imported.ret.value
            file == imported.file
            added == SelectSeq(ops, LAMBDA o : o.op = "AddSheetSchema")
            computes == SelectSeq(ops, LAMBDA o : o.op = "ComputeCode")
        IN  /\ Len(added) = Len(file.sheets)
            /\ \A k \in DOMAIN file.sheets :
                  \A c \in FormulaCells(file, k) :
                      LET pos == FormulaPos(file, k, c[2], c[3])
                          text == file.sheets[k].formula.value.rows[c[2]][c[3]]
                      IN  /\ pos \in DOMAIN added[k].schema.cells
                          /\ added[k].schema.cells[pos] = Code(text)
                          /\ Cardinality({i \in DOMAIN ops :
                                ops[i] = Operation_ComputeCode(
                                            SheetPos(pos, added[k].schema.id))}) = 1
            /\ Len(computes) =
                  Cardinality(UNION {FormulaCells(file, k) : k \in DOMAIN file.sheets})

\* a workbook of two sheets that both have the formula range with two
\* formula cells among empty ones: four recompute Operations
C13_Witness ==
    /\ imported.op = "import_excel_operations"
    /\ imported.ret.ok
    /\ Len(imported.file.sheets) = 2
    /\ \A k \in 1..2 : Cardinality(FormulaCells(imported.file, k)) = 2
    /\ Len(SelectSeq(imported.ret.value, LAMBDA o : o.op = "ComputeCode")) = 4

\* the position on its sheet of the value cell in row y, column x (both
\* from 1) of sheet k's value range
ValuePos(file, k, y, x) ==
    LET start == file.sheets[k].range.value.start[1]
    IN  Pos(start[2] + x, start[1] + y)

\* the cells of sheet k's value range, as <<row, column>>
ValueCells(file, k) ==
    LET rows == file.sheets[k].range.value.rows
    IN  UNION {{<<y, x>> : x \in DOMAIN rows[y]} : y \in DOMAIN rows}

\* the positions the non-empty formula cells of sheet k occupy
FormulaPositions(file, k) ==
    {FormulaPos(file, k, c[2], c[3]) : c \in FormulaCells(file, k)}

\* C14: after a successful import_excel_operations a date-time cell that
\* decodes to a date-time v is stored as Date(v.date) when the time of v is
\* 00:00:00, else as Time(v.time) when the date of v is the zero date, else
\* as DateTime(v); a v of the zero date at time 00:00:00 is stored as a
\* Date.  (Cells under a formula cell hold the formula.)
C14_DateTimeCells ==
    (imported.op = "import_excel_operations" /\ imported.ret.ok) =>
        LET file == imported.file
            added == SelectSeq(imported.ret.value, LAMBDA o : o.op = "AddSheetSchema")
        IN  \A k \in DOMAIN file.sheets :
                \A c \in ValueCells(file, k) :
                    LET cell == file.sheets[k].range.value.rows[c[1]][c[2]]
                        pos == ValuePos(file, k, c[1], c[2])
                    IN  (/\ cell.type = "DateTime"
                         /\ cell.is_datetime
                         /\ cell.as_datetime # None
                         /\ pos \notin FormulaPositions(file, k)) =>
                            LET v == cell.as_datetime[1]
                            IN  /\ pos \in DOMAIN added[k].schema.cells
                                /\ added[k].schema.cells[pos] =
                                      (IF v.time = "00:00:00" THEN Date(v.date)
                                       ELSE IF v.date = "1899-12-31" THEN Time(v.time)
                                       ELSE DateTime(v))
                                /\ (v.time = "00:00:00" /\ v.date = "1899-12-31") =>
                                      added[k].schema.cells[pos].tag = "Date"

\* a sheet imported with a Date, a Time and a DateTime value from its
\* date-time cells, the cell of zero date and zero time stored as a Date
C14_Witness ==
    /\ imported.op = "import_excel_operations"
    /\ imported.ret.ok
    /\ Len(imported.file.sheets) >= 1
    /\ imported.file.sheets[1].range.value.rows = << DateTimeCells >>
    /\ FormulaPositions(imported.file, 1) = {}
    /\ LET cells == imported.ret.value[1].schema.cells
       IN  /\ cells[Pos(1, 1)] = Date("1990-12-21")
           /\ cells[Pos(2, 1)] = Time("13:23:00")
           /\ cells[Pos(3, 1)].tag = "DateTime"
           /\ cells[Pos(4, 1)] = Date("1899-12-31")

\* C15: after a successful import_excel_operations the sheet has no cell,
\* Blank or other, at the position of a value cell that is empty or holds an
\* error, unless a formula cell occupies that position; the other value
\* cells of the range are stored.
C15_EmptyAndErrorCellsSkipped ==
    (imported.op = "import_excel_operations" /\ imported.ret.ok) =>
        LET file == imported.file
            added == SelectSeq(imported.ret.value, LAMBDA o : o.op = "AddSheetSchema")
        IN  \A k \in DOMAIN file.sheets :
                \A c \in ValueCells(file, k) :
                    LET cell == file.sheets[k].range.value.rows[c[1]][c[2]]
                        pos == ValuePos(file, k, c[1], c[2])
                    IN  pos \notin FormulaPositions(file, k) =>
                            (cell.type \in {"Empty", "Error"}
                                <=> pos \notin DOMAIN added[k].schema.cells)

\* a sheet imported from the range that holds an empty cell at B2 and an
\* error cell at A3 among text cells: the text is stored, B2 and A3 are not
C15_Witness ==
    /\ imported.op = "import_excel_operations"
    /\ imported.ret.ok
    /\ Len(imported.file.sheets) >= 1
    /\ imported.file.sheets[1].range.value.start = Some(<<1, 0>>)
    /\ imported.file.sheets[1].range.value.rows[1][2].type = "Empty"
    /\ imported.file.sheets[1].range.value.rows[2][1].type = "Error"
    /\ LET cells == imported.ret.value[1].schema.cells
       IN  /\ Pos(1, 2) \in DOMAIN cells
           /\ Pos(2, 3) \in DOMAIN cells
           /\ Pos(2, 2) \notin DOMAIN cells
           /\ Pos(1, 3) \notin DOMAIN cells

\* C16: the data table of a successful import_csv_operations has its first
\* row promoted to column headers exactly when the caller's flag is
\* Some(true), or the flag is None and guess_csv_first_row_is_header is true
\* of the parsed block; under a pinned flag the promotion is the flag,
\* whatever the inference says of the block.
C16_HeaderFlagThenGuess ==
    (imported.op = "import_csv_operations" /\ imported.ret.ok) =>
        LET data_table == imported.ret.value[1].data_table
            flag == imported.header_is_first_row
            inferred == guess_csv_first_row_is_header(data_table.value)
        IN  /\ data_table.header_is_first_row <=>
                  (flag = Some(TRUE) \/ (flag = None /\ inferred))
            /\ flag = Some(TRUE) => data_table.header_is_first_row
            /\ flag = Some(FALSE) => ~data_table.header_is_first_row

\* a file whose first row the inference takes for a header, imported with
\* the flag pinned to Some(false): no header promoted
C16_Witness ==
    /\ imported.op = "import_csv_operations"
    /\ imported.ret.ok
    /\ imported.header_is_first_row = Some(FALSE)
    /\ guess_csv_first_row_is_header(imported.ret.value[1].data_table.value)
    /\ ~imported.ret.value[1].data_table.header_is_first_row

\* every char of the text takes at most 2 bytes in UTF-8
TwoByteText(text) == \A i \in DOMAIN text : len_utf8(text[i]) <= 2

\* the rows and columns of a text of PreviewChars: its non-empty lines, cut
\* at the commas
TextRows(text) ==
    LET lines == SelectSeq(split(text, 10), LAMBDA line : line # <<>>)
    IN  [i \in DOMAIN lines |-> split(lines[i], 44)]

\* C17 as stated: get_csv_preview of the UTF-16 encoding of a text, in
\* either byte order behind its byte-order mark, returns what it returns of
\* the UTF-8 encoding, when every char takes at most 2 UTF-8 bytes.
C17_Utf16AnyOrderSameAsUtf8 ==
    (/\ imported.op = "get_csv_preview"
     /\ imported.file.encoding \in {"UTF-16LE", "UTF-16BE"}
     /\ TwoByteText(imported.file.text)) =>
        imported.ret = get_csv_preview(str_as_bytes(imported.file.text),
                                       imported.file.max_rows, Some(44))

\* C17: get_csv_preview of the little-endian UTF-16 encoding of a text,
\* behind its byte-order mark, on a little-endian target, returns the rows
\* and columns of the text, in order, as it does of the text's UTF-8
\* encoding, when every char of the text takes at most 2 UTF-8 bytes.
C17_Utf16LeSameAsUtf8 ==
    (/\ imported.op = "get_csv_preview"
     /\ imported.file.encoding = "UTF-16LE"
     /\ TwoByteText(imported.file.text)) =>
        /\ imported.ret = get_csv_preview(str_as_bytes(imported.file.text),
                                          imported.file.max_rows, Some(44))
        /\ imported.ret.ok
        /\ imported.ret.value =
              SubSeq(TextRows(imported.file.text), 1, Len(imported.ret.value))
        /\ Len(imported.ret.value) = Len(TextRows(imported.file.text))
           \/ Len(imported.ret.value) = imported.file.max_rows

\* the little-endian UTF-16 encoding of a text of two lines, the first of
\* two fields, with a char of 2 UTF-8 bytes: previewed as those two rows
C17_Witness ==
    /\ imported.op = "get_csv_preview"
    /\ imported.file.encoding = "UTF-16LE"
    /\ imported.file.text = << 97, 44, 216, 10, 97 >>
    /\ imported.file.bytes[1] = 255
    /\ imported.file.bytes[2] = 254
    /\ imported.ret.ok
    /\ imported.ret.value = << << << 97 >>, << 216 >> >>, << << 97 >> >> >>

\* C18: no step of the ingesters changes the controller: a call of
\* import_csv_operations, import_excel_operations or
\* import_parquet_operations returns, on success and on failure, with the
\* grid as it was; what it leaves behind is the Result and the
\* notifications.
C18_GridUnchanged == [][gc' = gc]_vars

\* a workbook import that created its two sheets and sent notifications,
\* returned (a list or an error), and left the grid without those sheets
C18_Witness ==
    /\ imported.op = "import_excel_operations"
    /\ Len(imported.file.sheets) = 2
    /\ Len(SelectSeq(imported.events, LAMBDA e : e.event = "Sheet::new")) = 2
    /\ Len(SelectSeq(imported.events, LAMBDA e : e.event = "jsImportProgress")) >= 1
    /\ ~imported.ret.ok
    /\ \A k \in 1..2 : imported.file.sheets[k].name \notin gc.sheet_names
    /\ gc \in Controllers

(***************************************************************************)
(* The tool's state machine: one run of main, statement by statement, for  *)
(* each argument list and each environment.                                *)
(***************************************************************************)
Paths == {<< "a", ".grid" >>, << "b" >>, << "dir/", "c", ".grid", ".bak" >>}
ArgLists == {<<>>} \cup {<< path >> : path \in Paths}
           \cup {<< path, other >> : path \in Paths, other \in Paths}

InitTool ==
    /\ IdleCV /\ IdleFmt /\ IdleGuess /\ IdleImport
    /\ \E args \in ArgLists, env \in [{"read", "import", "export_json", "write"} -> BOOLEAN] :
          tool = Process(args, env)

MainStep(pc, next) ==
    /\ tool.pc = pc
    /\ tool' = next
    /\ UNCHANGED <<cvVars, fmtVars, guessVars, importVars>>

MainArgs == MainStep("args", main_args(tool))
MainRead == MainStep("read", main_read(tool))
MainImport == MainStep("import", main_import(tool))
MainExportJson == MainStep("export_json", main_export_json(tool))
MainWrite == MainStep("write", main_write(tool))

NextTool ==
    \/ MainArgs
    \/ MainRead
    \/ MainImport
    \/ MainExportJson
    \/ MainWrite

SpecTool == InitTool /\ [][NextTool]_vars

\* C19: when fs::read, import or export_json fails, the tool ends with a
\* diagnostic on the error stream and a non-zero exit status, and at no
\* time is a file written; a file is written only in a run in which all
\* three succeeded, and it is the file at path_out.
C19_FailureWritesNothing ==
    /\ (tool.path # None
        /\ ~(tool.env.read /\ tool.env.import /\ tool.env.export_json)) =>
          /\ tool.files = {}
          /\ tool.pc = "exited" =>
                /\ tool.stderr # <<>>
                /\ tool.status = Some(1)
    /\ tool.files # {} =>
          /\ tool.env.read /\ tool.env.import /\ tool.env.export_json
          /\ tool.files = {replace_grid_json(tool.args[1])}
          /\ tool.stderr = <<>>

\* a run that read and decoded the grid file, failed to encode it, and has
\* ended: one diagnostic, exit status 1, no file written although fs::write
\* would have succeeded
C19_Witness ==
    /\ tool.pc = "exited"
    /\ tool.env.read /\ tool.env.import /\ ~tool.env.export_json /\ tool.env.write
    /\ tool.stderr = << "failed to export to JSON" >>
    /\ tool.status = Some(1)
    /\ tool.files = {}

\* C20 as stated: after a successful import_parquet_operations row 0 of the
\* block holds the header and row i + 1 holds data row i of the file, for
\* every i, whatever the sizes of the batches (the last batch may have fewer
\* rows than the earlier ones).
C20_BatchRowsAtOffset ==
    (imported.op = "import_parquet_operations" /\ imported.ret.ok) =>
        LET cell_values == imported.ret.value[1].data_table.value
            file == imported.file
        IN  /\ Array_get_row(cell_values, 0) =
                  Some([c \in DOMAIN file.fields |-> Text(file.fields[c])])
            /\ \A i \in 0..(file.num_rows - 1) :
                  Array_get_row(cell_values, i + 1) =
                      Some([c \in DOMAIN file.fields |-> ParquetValue(i, c - 1)])

(***************************************************************************)
(* Claims about the notifications of a workbook import, checked under      *)
(* SpecImport.  The rows of a workbook are walked in one order: the value  *)
(* rows of the first sheet, its formula rows, the value rows of the second *)
(* sheet, and so on.                                                       *)
(***************************************************************************)
ProgressEvents(events) == SelectSeq(events, LAMBDA e : e.event = "jsImportProgress")

\* the value rows and the formula rows of the sheets before sheet k
RECURSIVE ValueRowsBefore(_, _)
ValueRowsBefore(file, k) ==
    IF k <= 1 THEN 0
    ELSE ValueRowsBefore(file, k - 1) + Len(file.sheets[k - 1].range.value.rows)
RECURSIVE FormulaRowsBefore(_, _)
FormulaRowsBefore(file, k) ==
    IF k <= 1 THEN 0
    ELSE FormulaRowsBefore(file, k - 1) + Len(file.sheets[k - 1].formula.value.rows)
RowsWalked(file) ==
    ValueRowsBefore(file, Len(file.sheets) + 1) + FormulaRowsBefore(file, Len(file.sheets) + 1)

\* the rows of the walk at which a notification is due: the value rows
\* before which a multiple of IMPORT_LINES_PER_OPERATION value rows were
\* walked, and the same for the formula rows; each with the rows of both
\* kinds walked before it
ProgressDue(file) ==
    UNION { { [pass |-> "values", sheet |-> k, y |-> y,
               walked |-> ValueRowsBefore(file, k) + y + FormulaRowsBefore(file, k)] :
                 y \in { y \in 0..(Len(file.sheets[k].range.value.rows) - 1) :
                            (ValueRowsBefore(file, k) + y) % IMPORT_LINES_PER_OPERATION = 0 } }
            \cup
            { [pass |-> "formula", sheet |-> k, y |-> y,
               walked |-> ValueRowsBefore(file, k + 1) + FormulaRowsBefore(file, k) + y] :
                 y \in { y \in 0..(Len(file.sheets[k].formula.value.rows) - 1) :
                            (FormulaRowsBefore(file, k) + y) % IMPORT_LINES_PER_OPERATION = 0 } }
          : k \in DOMAIN file.sheets }

\* C21 as stated: during a workbook import a notification is sent for every
\* row walked, value rows and formula rows of every sheet; its current
\* field is the number of rows of both kinds walked before it and its total
\* the total computed before parsing, twice the value rows of all sheets.
C21_ProgressEveryRow ==
    (imported.op = "import_excel_operations" /\ imported.ret.ok) =>
        LET progress == ProgressEvents(imported.events)
            file == imported.file
        IN  /\ Len(progress) = RowsWalked(file)
            /\ \A i \in DOMAIN progress :
                  /\ progress[i].current = i - 1
                  /\ progress[i].total = 2 * ValueRowsBefore(file, Len(file.sheets) + 1)

\* C21 as the code has it: a notification is sent for a value row when the
\* number of value rows walked before it, over all sheets, is a multiple of
\* IMPORT_LINES_PER_OPERATION, and for a formula row when the number of
\* formula rows walked before it is; the notifications come in the order
\* of the walk, the current field of each is the number of rows of both
\* kinds walked before its row, and its total is the total computed before
\* parsing, twice the value rows of all sheets.
C21_ProgressEveryBatch ==
    (imported.op = "import_excel_operations" /\ imported.ret.ok) =>
        LET progress == ProgressEvents(imported.events)
            file == imported.file
            due == ProgressDue(file)
        IN  /\ Len(progress) = Cardinality(due)
            /\ { progress[i].current : i \in DOMAIN progress } = { d.walked : d \in due }
            /\ \A i \in DOMAIN progress :
                  /\ i > 1 => progress[i - 1].current < progress[i].current
                  /\ progress[i].total = 2 * ValueRowsBefore(file, Len(file.sheets) + 1)

\* a workbook of two sheets, the first with IMPORT_LINES_PER_OPERATION value
\* rows: three notifications were sent, for the first value row, for the
\* first value row of the second sheet and for the first formula row
C21_Witness ==
    /\ imported.op = "import_excel_operations"
    /\ imported.ret.ok
    /\ Len(imported.file.sheets) = 2
    /\ RowsWalked(imported.file) = IMPORT_LINES_PER_OPERATION + 2
    /\ LET progress == ProgressEvents(imported.events)
       IN  /\ Len(progress) = 3
           /\ progress[2].current = IMPORT_LINES_PER_OPERATION
           /\ progress[3].current = IMPORT_LINES_PER_OPERATION + 1

(***************************************************************************)
(* Claims about the order of the list of a workbook import, checked under  *)
(* SpecImport.                                                             *)
(***************************************************************************)
\* the recompute Operations among the first n of the list that a consumer
\* applying the list in order meets before the sheet they name is added
RecomputesOfMissingSheet(ops, n) ==
    { j \in 1..n :
        /\ ops[j].op = "ComputeCode"
        /\ ~\E i \in 1..(j - 1) :
              /\ ops[i].op = "AddSheetSchema"
              /\ ops[i].schema.id = ops[j].sheet_pos.sheet_id }

\* C22: in the list returned by import_excel_operations every recompute
\* Operation of a cell of sheet S stands after the add-sheet Operation that
\* carries S: a consumer applying the list in order never meets a recompute
\* for a sheet that is not yet added.
C22_RecomputeAfterItsSheet ==
    (imported.op = "import_excel_operations" /\ imported.ret.ok) =>
        RecomputesOfMissingSheet(imported.ret.value, Len(imported.ret.value)) = {}

\* a workbook of two sheets with formula cells in the second: its list
\* holds recompute Operations of the second sheet, all after the second
\* add-sheet Operation, and none of them could be applied after the first
C22_Witness ==
    /\ imported.op = "import_excel_operations"
    /\ imported.ret.ok
    /\ Len(imported.file.sheets) = 2
    /\ LET ops == imported.ret.value
       IN  \E i, j \in DOMAIN ops :
              /\ i > 1 /\ i < j
              /\ ops[i].op = "AddSheetSchema"
              /\ ops[j].op = "ComputeCode"
              /\ ops[j].sheet_pos.sheet_id = ops[i].schema.id
              /\ ops[j].sheet_pos.sheet_id # ops[1].schema.id

(***************************************************************************)
(* Claims about CellValues begun by any constructor, checked under         *)
(* SpecCons.                                                               *)
(***************************************************************************)
\* the coordinates <<x, y>> of the values an object holds
into_iter(self) ==
    UNION {{<<c - 1, y>> : y \in DOMAIN self.columns[c]} : c \in DOMAIN self.columns}

WiderThanLast(file) ==
    LET records == ParsedRecords(file)
    IN  /\ records # <<>>
        /\ records[Len(records)][2].ok
        /\ \E k \in DOMAIN records :
              /\ records[k][2].ok
              /\ Len(records[k][2].fields) > Len(records[Len(records)][2].fields)

\* C24: when a record of the file has more fields than its last record,
\* import_csv_operations returns an error and no Operation; when every
\* record is text, the error is the one of a cell written outside the
\* block.  The fields past the width are neither dropped nor wrapped.
C24_WiderRecordFails ==
    (imported.op = "import_csv_operations" /\ WiderThanLast(imported.file)) =>
        /\ ~imported.ret.ok
        /\ imported.ret.value = <<>>
        /\ (\A k \in DOMAIN ParsedRecords(imported.file) :
                ParsedRecords(imported.file)[k][2].ok)
              => imported.ret.error = "array set"

\* a file of a record of two fields and a last record of one: the call
\* failed on the second field of the first record
C24_Witness ==
    /\ imported.op = "import_csv_operations"
    /\ WiderThanLast(imported.file)
    /\ Len(ParsedRecords(imported.file)) = 2
    /\ ParsedRecords(imported.file)[1][2] = Record(<<"a", "1">>)
    /\ ParsedRecords(imported.file)[2][2] = Record(<<"1">>)
    /\ imported.ret = Err("array set")

(***************************************************************************)
(* Claims about the progress of a workbook import against its total,       *)
(* checked under SpecImport.                                               *)
(***************************************************************************)
\* C25 as stated: in every notification of a workbook import the current
\* field, the value rows and formula rows walked, is at most the total,
\* twice the value rows of all sheets, whatever the heights of the value
\* ranges and the formula ranges of the sheets.
C25_CurrentWithinTotal ==
    imported.op = "import_excel_operations" =>
        \A i \in DOMAIN imported.events :
            imported.events[i].event = "jsImportProgress" =>
                imported.events[i].current <= imported.events[i].total

(***************************************************************************)
(* Claims about the recovery of the encoding, checked under SpecImport.    *)
(***************************************************************************)
\* the calls get_csv_preview makes of itself, one within the other, for
\* these bytes
RECURSIVE RecoveryCalls(_)
RecoveryCalls(bytes) ==
    IF utf16_recovery(bytes) = None THEN 0
    ELSE 1 + RecoveryCalls(str_as_bytes(utf16_recovery(bytes)[1]))

\* C26: get_csv_preview and import_csv_operations call themselves at most
\* once: the bytes handed to the inner call are those of the text
\* read_utf16 recovered, they are UTF-8, and the inner call reads them
\* without recovering again; and when the bytes are not UTF-8 and
\* read_utf16 recovers nothing, the call goes on with the bytes as they are
\* and returns what its reader makes of them.
C26_RecoversAtMostOnce ==
    /\ imported.op = "get_csv_preview" =>
          LET bytes == imported.file.bytes
              utf == utf16_recovery(bytes)
          IN  /\ RecoveryCalls(bytes) <= 1
              /\ utf # None =>
                    /\ from_utf8(str_as_bytes(utf[1])) = Some(utf[1])
                    /\ imported.ret = get_csv_preview_records(str_as_bytes(utf[1]),
                                            imported.file.max_rows, Some(44))
              /\ (from_utf8(bytes) = None /\ read_utf16_bytes(bytes) = None) =>
                    imported.ret = get_csv_preview_records(bytes, imported.file.max_rows,
                                                           Some(44))
    /\ imported.op = "import_csv_operations" =>
          LET file == imported.file
              inner == as_bytes(read_utf16(file)[1])
          IN  /\ (~file.utf8 /\ read_utf16(file) # None) =>
                    /\ inner.utf8
                    /\ imported.ret = import_csv_operations(gc, TargetSheet, inner, InsertAt,
                                            imported.header_is_first_row).ret
              /\ (~file.utf8 /\ read_utf16(file) = None) =>
                    imported.ret = import_csv_operations(gc, TargetSheet,
                                        [file EXCEPT !.utf8 = TRUE], InsertAt,
                                        imported.header_is_first_row).ret

\* a preview of the little-endian UTF-16 encoding of a text of two lines:
\* the bytes are not UTF-8, those of the recovered text are, one inner call
\* was made and the two rows were returned
C26_Witness ==
    /\ imported.op = "get_csv_preview"
    /\ imported.file.encoding = "UTF-16LE"
    /\ imported.file.text = << 216, 10, 97 >>
    /\ from_utf8(imported.file.bytes) = None
    /\ RecoveryCalls(imported.file.bytes) = 1
    /\ imported.ret = Ok(<< << << 216 >> >>, << << 97 >> >> >>)

\* a preview of one row of a file in ISO-8859-1 that read_utf16 makes no
\* text of: the first line of the bytes as they are was returned
C26_RawBytesReached ==
    /\ imported.op = "get_csv_preview"
    /\ imported.file.encoding = "ISO-8859-1"
    /\ from_utf8(imported.file.bytes) = None
    /\ read_utf16_bytes(imported.file.bytes) = None
    /\ imported.ret = Ok(<< << << 97 >> >> >>)

====
